---------------------------- MODULE Spec2Model ----------------------------
(***************************************************************************)
(* A model of the shellcraft orchestration engine: the command guardrails, *)
(* the self-healing loops, the atomic writer and the orchestrator's plan   *)
(* application, each translated from the Rust source.                      *)
(*                                                                         *)
(* The module holds several state machines.  Each has its own              *)
(* specification (SpecHeal, SpecGuard, ...) that moves only that machine   *)
(* and keeps the variables of the others at their idle values.             *)
(***************************************************************************)
EXTENDS Integers, Sequences, FiniteSets, TLC

VARIABLES
    GLOBAL_DRY_RUN,     \* runner.rs GLOBAL_DRY_RUN
    GLOBAL_GUARD,       \* runner.rs GLOBAL_GUARD.require_confirmation
    GLOBAL_TIMELINE,    \* runner.rs GLOBAL_TIMELINE: the verdicts recorded
    TASK_QUEUE,         \* planner.rs TASK_QUEUE
    envDryRun,          \* the DRY_RUN environment variable read by editor.rs
    runner,             \* the CommandRunner handed to run_with_self_healing
    heal,               \* one call of runner::run_with_self_healing
    fixer,              \* one call of editor::run_with_fixer
    UNSAFE_MODE,        \* main.rs UNSAFE_MODE (--unsafe)
    CONFIG,             \* main.rs CONFIG: [ask_before_destructive]
    exec,               \* one call of main.rs run_and_capture
    rcall,              \* the last call of CommandRunner::run and its outcome
    disk,               \* the file system: [sub, files]
    aw,                 \* one call of fsutil::atomic_write
    tree,               \* the files the orchestrator sees, by canonical path
    manifest,           \* the programs found on PATH
    orch,               \* one call of main.rs high_level_orchestrate
    clock,              \* the monotonic clock (Instant::now)
    sched,              \* one call of planner.rs execute_due_tasks
    TIMELINE,           \* main.rs TIMELINE: the entries, in the order pushed
    rec,                \* the recorders of timeline entries: [pc, end] each
    goal,               \* one run of `program goal <description>`
    memory,             \* .agent/memory.json and the calls of record_fact
    session,            \* the REPL or the autonomous loop of main
    stream,             \* run_and_capture's child, its two pipes and the log
    summary,            \* the context gathered for one informational answer
    planned,            \* one call of planner.rs plan_changes
    executor,           \* one call of runner.rs ExecutorAgent::execute
    crun,               \* one call of runner.rs CommandRunner::run, step by step
    autorun,            \* runner.rs AutonomousRunner::run and the watched files
    budget,             \* one call of planner.rs enforce_safety_budget
    cw                  \* two concurrent calls of fsutil.rs atomic_write and their directory

healVars == <<GLOBAL_DRY_RUN, GLOBAL_GUARD, GLOBAL_TIMELINE, TASK_QUEUE,
              envDryRun, runner, heal, fixer>>

guardVars == <<UNSAFE_MODE, CONFIG, exec, rcall>>

fsVars == <<disk, aw>>

orchVars == <<tree, manifest, orch>>

schedVars == <<clock, sched>>

timelineVars == <<TIMELINE, rec>>

\* What the orchestrator leaves alone, beside the guardrail machine.
nonOrchVars == <<healVars, fsVars, schedVars, timelineVars, goal, memory, session, stream, summary, planned, executor, crun, autorun, budget, cw>>

\* What the scheduler leaves alone, beside the task queue and the files.
nonSchedVars == <<GLOBAL_DRY_RUN, GLOBAL_GUARD, GLOBAL_TIMELINE, envDryRun,
                  runner, heal, fixer, guardVars, fsVars, manifest, orch,
                  timelineVars, goal, memory, session, stream, summary, planned, executor, crun, autorun, budget, cw>>

\* What the self-healing machine leaves alone.
nonHealVars == <<guardVars, fsVars, orchVars, schedVars, timelineVars, goal, memory, session, stream, summary, planned, executor, crun, autorun, budget, cw>>

\* What the guardrail machine leaves alone, beside the runner's globals.
nonGuardVars == <<GLOBAL_TIMELINE, TASK_QUEUE, envDryRun, runner, heal, fixer,
                  fsVars, orchVars, schedVars, timelineVars, goal, memory, session, stream, summary, planned, executor, crun, autorun, budget, cw>>

\* What the atomic writer leaves alone.
nonFsVars == <<healVars, guardVars, orchVars, schedVars, timelineVars, goal, memory, session, stream, summary, planned, executor, crun, autorun, budget, cw>>

\* What the recorders of the timeline leave alone, beside the clock.
nonTimelineVars == <<healVars, guardVars, fsVars, orchVars, sched, goal, memory, session, stream, summary, planned, executor, crun, autorun, budget, cw>>

\* What the goal subcommand leaves alone, beside the timeline.
nonGoalVars == <<healVars, guardVars, fsVars, orchVars, schedVars, rec, memory, session, stream, summary, planned, executor, crun, autorun, budget, cw>>

-----------------------------------------------------------------------------
(* Bounds of the model. *)

MaxHeal == 3
MaxRetries == 1
MaxAttempts == 3

-----------------------------------------------------------------------------
(* Strings that the code searches or splits are sequences of characters.   *)

Min(S) == CHOOSE x \in S : \A y \in S : x <= y

\* str::contains
Contains(s, pat) ==
    \E i \in 1..(Len(s) - Len(pat) + 1) : SubSeq(s, i, i + Len(pat) - 1) = pat

\* command.split_whitespace().next().unwrap_or("")
FirstToken(s) ==
    LET nonws == {i \in 1..Len(s) : s[i] # " "} IN
    IF nonws = {} THEN <<>>
    ELSE LET b == Min(nonws)
             ws == {i \in b..Len(s) : s[i] = " "}
             e == IF ws = {} THEN Len(s) + 1 ELSE Min(ws)
         IN SubSeq(s, b, e - 1)

DENYLIST ==
    << <<"r", "m", " ", "-", "r", "f">>,
       <<"s", "u", "d", "o">>,
       <<"s", "h", "u", "t", "d", "o", "w", "n">>,
       <<"r", "e", "b", "o", "o", "t">>,
       <<"i", "n", "i", "t", " ", "0">>,
       <<"p", "o", "w", "e", "r", "o", "f", "f">> >>

ALLOWLIST ==
    { <<"c", "a", "r", "g", "o">>,
      <<"n", "p", "m">>,
      <<"p", "y", "t", "e", "s", "t">>,
      <<"g", "o">>,
      <<"m", "v", "n">>,
      <<"r", "u", "s", "t", "f", "m", "t">>,
      <<"p", "r", "e", "t", "t", "i", "e", "r">>,
      <<"b", "l", "a", "c", "k">>,
      <<"g", "o", "f", "m", "t">>,
      <<"c", "l", "i", "p", "p", "y">>,
      <<"e", "s", "l", "i", "n", "t">>,
      <<"f", "l", "a", "k", "e", "8">>,
      <<"g", "i", "t">>,
      <<"g", "r", "e", "p">>,
      <<"r", "g">> }

CmdCargoBuild == <<"c", "a", "r", "g", "o", " ", "b", "u", "i", "l", "d">>
CmdRmRf == <<"r", "m", " ", "-", "r", "f", " ", "t", "a", "r", "g", "e", "t">>
CmdMake == <<"m", "a", "k", "e">>
CmdGitSudo == <<"g", "i", "t", " ", "s", "u", "d", "o">>
CmdGitDiff == <<"g", "i", "t", " ", "d", "i", "f", "f">>

\* The commands a self-healing call is given.
HealCommands == {CmdCargoBuild, CmdRmRf, CmdMake, CmdGitSudo}

\* What the user types at a confirmation prompt, trimmed and lower-cased.
Responses == {"y", "yes", "n", ""}

-----------------------------------------------------------------------------
(* runner.rs: guardrails and CommandRunner::run                            *)

\* guard_check(command): "Ok" or "PermissionDenied"; `resp` is the line the
\* user answers when the prompt is shown.
guard_check(command, require_confirmation, resp) ==
    IF \E i \in 1..Len(DENYLIST) : Contains(command, DENYLIST[i])
    THEN [verdict |-> "PermissionDenied", prompted |-> FALSE]
    ELSE IF FirstToken(command) \in ALLOWLIST
    THEN [verdict |-> "Ok", prompted |-> FALSE]
    ELSE IF require_confirmation
    THEN IF resp # "y" /\ resp # "yes"
         THEN [verdict |-> "PermissionDenied", prompted |-> TRUE]
         ELSE [verdict |-> "Ok", prompted |-> TRUE]
    ELSE [verdict |-> "PermissionDenied", prompted |-> FALSE]

Stdouts == {"out1", "out2"}

\* The results CommandRunner::run(command) can return: the guard, the dry-run
\* report, then up to max_retries + 1 spawns of `sh -c command`, stopping at
\* the first one that exits with success.
RunnerRun(command, cfg, require_confirmation, dry, resp) ==
    LET g == guard_check(command, require_confirmation, resp) IN
    IF g.verdict # "Ok"
    THEN {[ok |-> FALSE, err |-> "PermissionDenied", out |-> "", spawns |-> 0]}
    ELSE IF dry
    THEN {[ok |-> TRUE, err |-> "", out |-> "", spawns |-> 0]}
    ELSE {[ok |-> TRUE, err |-> "", out |-> o, spawns |-> k] :
              o \in Stdouts, k \in 1..(cfg.max_retries + 1)}
         \cup
         {[ok |-> FALSE, err |-> e, out |-> "", spawns |-> cfg.max_retries + 1] :
              e \in {"Other", "Io"}}

\* record_timeline(entry)
record_timeline(timeline, verdict) == Append(timeline, verdict)

-----------------------------------------------------------------------------
(* editor.rs: apply_patch                                                  *)

PatchOutcomes == {"applied", "tempfile_error", "spawn_error", "rejected"}

\* apply_patch(patch): a no-op under DRY_RUN, otherwise `patch -p0 -i tmp`.
apply_patch(dry, outcome) ==
    IF dry THEN [ok |-> TRUE, patched |-> FALSE]
    ELSE IF outcome = "applied" THEN [ok |-> TRUE, patched |-> TRUE]
    ELSE [ok |-> FALSE, patched |-> FALSE]

-----------------------------------------------------------------------------
(* runner.rs: run_with_self_healing                                        *)

\* An off-by-one exhaustion test: one heal cycle too many.
HealExhaustedLate(attempt, max_heal) == attempt > max_heal + 1

\* if attempt > max_heal
HealExhausted(attempt, max_heal) == attempt > max_heal

\* Entry of run_with_self_healing: the dry-run report and early return.
HealStart ==
    /\ heal.pc = "start"
    /\ heal' = IF GLOBAL_DRY_RUN
               THEN [heal EXCEPT !.pc = "done", !.result = "Ok", !.out = ""]
               ELSE [heal EXCEPT !.pc = "run"]
    /\ UNCHANGED <<GLOBAL_DRY_RUN, GLOBAL_GUARD, GLOBAL_TIMELINE, TASK_QUEUE,
                   envDryRun, runner, fixer>>
    /\ UNCHANGED nonHealVars

\* One iteration head: runner.run(command) and the match on its result, up
\* to the return or to the point where the context for the LLM is gathered.
HealRun ==
    /\ heal.pc = "run"
    /\ \E resp \in Responses :
       \E r \in RunnerRun(heal.command, runner, GLOBAL_GUARD, GLOBAL_DRY_RUN, resp) :
          LET h1 == [heal EXCEPT !.runs = @ + 1, !.spawns = @ + r.spawns] IN
          IF r.ok
          THEN /\ GLOBAL_TIMELINE' = record_timeline(GLOBAL_TIMELINE, "success")
               /\ heal' = [h1 EXCEPT !.pc = "done", !.result = "Ok",
                                     !.out = r.out, !.lastOut = r.out,
                                     !.succeeded = @ + 1]
          ELSE LET h2 == [h1 EXCEPT !.attempt = @ + 1,
                                    !.denied = @ \/ (r.err = "PermissionDenied")]
               IN IF HealExhausted(h2.attempt, h2.max_heal)
                  THEN /\ GLOBAL_TIMELINE' =
                              record_timeline(GLOBAL_TIMELINE, "failure")
                       /\ heal' = [h2 EXCEPT !.pc = "done",
                                             !.result = "HealingExhausted"]
                  ELSE /\ GLOBAL_TIMELINE' = GLOBAL_TIMELINE
                       /\ heal' = [h2 EXCEPT !.pc = "context"]
    /\ UNCHANGED <<GLOBAL_DRY_RUN, GLOBAL_GUARD, TASK_QUEUE, envDryRun, runner,
                   fixer>>
    /\ UNCHANGED nonHealVars

\* llm::propose_patch(log, diff): the stub returns the diff as the patch.
propose_patch(log_content, diff) == [ok |-> TRUE, patch |-> diff]

Diffs == {"", "diff1"}

\* Gather the log and `git diff` (through run_command, a runner without
\* retries), then ask the LLM for a patch.
HealContext ==
    /\ heal.pc = "context"
    /\ \E resp \in Responses :
       \E d \in RunnerRun(CmdGitDiff, [max_retries |-> 0], GLOBAL_GUARD,
                          GLOBAL_DRY_RUN, resp) :
       \E text \in Diffs :
          LET diff == IF d.ok THEN text ELSE ""
              p == propose_patch("log", diff)
          IN heal' = IF p.ok
                     THEN [heal EXCEPT !.pc = "apply", !.patch = p.patch,
                                       !.patchReq = @ + 1]
                     ELSE [heal EXCEPT !.pc = "run", !.patchReq = @ + 1]
    /\ UNCHANGED <<GLOBAL_DRY_RUN, GLOBAL_GUARD, GLOBAL_TIMELINE, TASK_QUEUE,
                   envDryRun, runner, fixer>>
    /\ UNCHANGED nonHealVars

\* editor::apply_patch(&patch); on either result the loop runs the command
\* again.
HealApplyPatch ==
    /\ heal.pc = "apply"
    /\ \E outcome \in PatchOutcomes :
          LET a == apply_patch(envDryRun, outcome) IN
          heal' = [heal EXCEPT !.pc = "run", !.applyCalls = @ + 1,
                               !.applied = IF a.ok THEN @ + 1 ELSE @,
                               !.failedApply = IF a.ok THEN @ ELSE @ + 1]
    /\ UNCHANGED <<GLOBAL_DRY_RUN, GLOBAL_GUARD, GLOBAL_TIMELINE, TASK_QUEUE,
                   envDryRun, runner, fixer>>
    /\ UNCHANGED nonHealVars

-----------------------------------------------------------------------------
(* editor.rs: run_with_fixer                                               *)

\* The max_attempts == 0 check.
FixerStart ==
    /\ fixer.pc = "start"
    /\ fixer' = IF fixer.max_attempts = 0
                THEN [fixer EXCEPT !.pc = "done", !.result = "InvalidArgument"]
                ELSE [fixer EXCEPT !.pc = "task"]
    /\ UNCHANGED <<GLOBAL_DRY_RUN, GLOBAL_GUARD, GLOBAL_TIMELINE, TASK_QUEUE,
                   envDryRun, runner, heal>>
    /\ UNCHANGED nonHealVars

\* attempt += 1; task(); the match on its result.
FixerTask ==
    /\ fixer.pc = "task"
    /\ \E ok \in BOOLEAN :
          LET f1 == [fixer EXCEPT !.attempt = @ + 1, !.tasks = @ + 1] IN
          fixer' = IF ok
                   THEN [f1 EXCEPT !.pc = "done", !.result = "Ok"]
                   ELSE IF f1.attempt >= f1.max_attempts
                   THEN [f1 EXCEPT !.pc = "done", !.result = "FixerExhausted"]
                   ELSE [f1 EXCEPT !.pc = "fix"]
    /\ UNCHANGED <<GLOBAL_DRY_RUN, GLOBAL_GUARD, GLOBAL_TIMELINE, TASK_QUEUE,
                   envDryRun, runner, heal>>
    /\ UNCHANGED nonHealVars

\* PlannerAgent::generate_fix (a stub that returns an empty patch), then
\* apply_patch(&patch)?  -- the `?` returns the error to the caller.
FixerFix ==
    /\ fixer.pc = "fix"
    /\ \E outcome \in PatchOutcomes :
          LET a == apply_patch(envDryRun, outcome) IN
          fixer' = IF a.ok
                   THEN [fixer EXCEPT !.pc = "task", !.applyCalls = @ + 1,
                                      !.applied = @ + 1]
                   ELSE [fixer EXCEPT !.pc = "done", !.applyCalls = @ + 1,
                                      !.failedApply = @ + 1,
                                      !.result = "PatchApplyError"]
    /\ UNCHANGED <<GLOBAL_DRY_RUN, GLOBAL_GUARD, GLOBAL_TIMELINE, TASK_QUEUE,
                   envDryRun, runner, heal>>
    /\ UNCHANGED nonHealVars

-----------------------------------------------------------------------------

\* What record_fact leaves alone.
nonMemoryVars == <<healVars, guardVars, fsVars, orchVars, schedVars,
                   timelineVars, goal, session, stream, summary, planned, executor, crun, autorun, budget, cw>>

\* What the REPL and the autonomous loop leave alone.
nonSessionVars == <<healVars, guardVars, fsVars, orchVars, schedVars,
                    timelineVars, goal, memory, stream, summary, planned, executor, crun, autorun, budget, cw>>

\* What the capture loop of run_and_capture leaves alone.
nonStreamVars == <<healVars, guardVars, fsVars, orchVars, schedVars,
                   timelineVars, goal, memory, session, summary, planned, executor, crun, autorun, budget, cw>>

\* What the gathering of the summary context leaves alone.
nonSummaryVars == <<healVars, guardVars, fsVars, orchVars, schedVars,
                    timelineVars, goal, memory, session, stream, planned, executor, crun, autorun, budget, cw>>

\* What a call of plan_changes leaves alone.
nonPlannedVars == <<healVars, guardVars, fsVars, orchVars, schedVars,
                    timelineVars, goal, memory, session, stream, summary, executor, crun, autorun, budget, cw>>

\* What ExecutorAgent::execute leaves alone.
nonExecutorVars == <<healVars, guardVars, fsVars, orchVars, schedVars,
                  timelineVars, goal, memory, session, stream, summary, planned, crun, autorun, budget, cw>>

\* What the loop of CommandRunner::run leaves alone.
nonCrunVars == <<healVars, guardVars, fsVars, orchVars, schedVars, timelineVars, goal, memory, session, stream, summary, planned, executor, autorun, budget, cw>>

\* What AutonomousRunner::run leaves alone.
nonAutorunVars == <<healVars, guardVars, fsVars, orchVars, schedVars, timelineVars, goal, memory, session, stream, summary, planned, executor, crun, budget, cw>>

\* What enforce_safety_budget leaves alone.
nonBudgetVars == <<healVars, guardVars, fsVars, orchVars, schedVars, timelineVars, goal, memory, session, stream, summary, planned, executor, crun, autorun, cw>>

\* What the concurrent calls of atomic_write leave alone.
nonCwVars == <<healVars, guardVars, fsVars, orchVars, schedVars, timelineVars, goal, memory, session, stream, summary, planned, executor, crun, autorun, budget>>

vars == <<healVars, guardVars, fsVars, orchVars, schedVars, timelineVars, goal, memory, session, stream, summary, planned, executor, crun, autorun, budget, cw>>

\* The values of a machine's variables while another machine runs.
HealIdle ==
    [pc |-> "idle", command |-> <<>>, max_heal |-> 0, attempt |-> 0,
     runs |-> 0, spawns |-> 0, denied |-> FALSE, succeeded |-> 0,
     patch |-> "", patchReq |-> 0, applyCalls |-> 0, applied |-> 0,
     failedApply |-> 0, result |-> "none", out |-> "", lastOut |-> "",
     queueBefore |-> 0]

FixerIdle ==
    [pc |-> "idle", max_attempts |-> 0, attempt |-> 0, tasks |-> 0,
     applyCalls |-> 0, applied |-> 0, failedApply |-> 0, result |-> "none"]

ExecIdle ==
    [pc |-> "idle", spec |-> [cmd |-> "", args |-> <<>>], ask |-> FALSE,
     prompted |-> FALSE, confirmed |-> FALSE, passed |-> FALSE,
     spawned |-> FALSE, result |-> "none", exit_code |-> 0, err |-> ""]

RcallIdle ==
    [command |-> <<>>, resp |-> "", prompted |-> FALSE, verdict |-> "none",
     spawns |-> 0, ok |-> FALSE]

NoEntry == [kind |-> "none", data |-> <<>>]

AwIdle ==
    [pc |-> "idle", path |-> [dir |-> "", name |-> <<>>], content |-> <<>>,
     before |-> NoEntry, result |-> "none"]

DiskIdle == [sub |-> "none", files |-> <<>>]

NoPlan == [read |-> <<>>, edit |-> <<>>, actions |-> <<>>, notes |-> ""]

OrchIdle ==
    [pc |-> "idle", request |-> [words |-> {}, paths |-> {}],
     export_patch |-> FALSE, dry_run |-> FALSE, attempt |-> 0, plan |-> NoPlan,
     ei |-> 0, ai |-> 0, patch_counter |-> 1, log |-> <<>>, result |-> "none",
     failed |-> 0, err |-> [at |-> 0, what |-> "none", left |-> 0],
     diag |-> <<>>,
     cmd_diag |-> {}, patch_dir |-> <<>>, agent_log |-> {}]

TreeIdle == <<>>

\* The tasks that record timeline entries, by the agent they record for.
Recorders == {"Planner", "Executor"}

RecIdle == [r \in Recorders |-> [pc |-> "idle", end |-> 0]]

\* The files the goal subcommand writes: three in <root>/.agent and
\* <root>/report.md.
GoalFiles == {"plan.json", "plan.md", "goal.txt", "report.md"}

GoalIdle ==
    [pc |-> "idle", sub_args |-> <<>>,
     files |-> [f \in GoalFiles |-> "absent"],
     planner_timeline |-> <<>>, report_rows |-> <<>>, result |-> "none"]

\* The threads that call record_fact.
Callers == {"t1", "t2"}

CallIdle ==
    [pc |-> "idle", fact |-> <<>>, facts |-> <<>>, repeat |-> FALSE,
     file0 |-> [st |-> "absent", facts |-> <<>>], result |-> "none"]

MemoryIdle ==
    [file |-> [st |-> "absent", facts |-> <<>>],
     last |-> [by |-> "none", fact |-> <<>>, result |-> "none"],
     call |-> [c \in Callers |-> CallIdle]]

SessionIdle ==
    [pc |-> "idle", handler |-> "stub", signalled |-> FALSE,
     shutdown |-> FALSE, input |-> <<>>, intent |-> "none", handled |-> 0,
     attempt |-> 0, phase |-> 0, elapsed |-> 0, late |-> 0,
     result |-> "none", state |-> "Running"]

StreamIdle ==
    [pc |-> "idle", child |-> "none", lines |-> 0,
     pipe |-> [stdout |-> <<>>, stderr |-> <<>>],
     done |-> [stdout |-> FALSE, stderr |-> FALSE],
     emitted |-> <<>>, result |-> "none"]

SummaryIdle ==
    [pc |-> "idle", picked |-> 0, seen |-> 0, blobs |-> 0, total |-> 0,
     largest |-> 0]

PlannedIdle ==
    [pc |-> "idle", llm |-> "none", read0 |-> <<>>, edit0 |-> <<>>,
     read |-> <<>>, edit |-> <<>>]

ExecutorIdle ==
    [pc |-> "idle", concurrency |-> 0, graph |-> <<>>, valid |-> "none",
     indegree |-> <<>>, chan |-> <<>>, rx |-> 0, worker |-> <<>>,
     status |-> <<>>, runs |-> <<>>, err |-> "none", result |-> "none"]

CrunIdle ==
    [pc |-> "idle", max_retries |-> 0, overflow_checks |-> FALSE,
     verdict |-> "none", attempt |-> 0, spawns |-> 0, last |-> "none",
     last_error |-> 0, result |-> "none", err_of |-> 0]

AutorunIdle ==
    [pc |-> "idle", files |-> <<>>, timestamps |-> <<>>, planner |-> "none",
     pipeline |-> "none"]

BudgetIdle == [pc |-> "idle", given |-> <<>>, tasks |-> <<>>, compressed |-> FALSE]

CwIdle == [files |-> <<>>, call |-> <<>>]

SchedIdle ==
    [pc |-> "idle", now |-> 0, before |-> <<>>, due |-> <<>>, plan |-> NoPlan,
     ei |-> 0, ai |-> 0, attempt |-> 0, log |-> <<>>, done |-> 0,
     result |-> "none"]

InitHeal ==
    /\ GLOBAL_DRY_RUN \in BOOLEAN
    /\ GLOBAL_GUARD \in BOOLEAN
    /\ GLOBAL_TIMELINE = <<>>
    /\ TASK_QUEUE \in {<<>>, <<[execute_at |-> 0, plan |-> NoPlan]>>}
    /\ envDryRun \in BOOLEAN
    /\ runner \in [max_retries : 0..MaxRetries]
    /\ heal \in [pc : {"start"}, command : HealCommands, max_heal : 0..MaxHeal,
                 attempt : {0}, runs : {0}, spawns : {0}, denied : {FALSE},
                 succeeded : {0}, patch : {""}, patchReq : {0},
                 applyCalls : {0}, applied : {0}, failedApply : {0},
                 result : {"none"}, out : {""}, lastOut : {""},
                 queueBefore : {Len(TASK_QUEUE)}]
    /\ fixer \in [pc : {"start"}, max_attempts : 0..MaxAttempts, attempt : {0},
                  tasks : {0}, applyCalls : {0}, applied : {0},
                  failedApply : {0}, result : {"none"}]
    /\ UNSAFE_MODE = FALSE
    /\ CONFIG = [ask_before_destructive |-> TRUE]
    /\ exec = ExecIdle
    /\ rcall = RcallIdle
    /\ disk = DiskIdle
    /\ aw = AwIdle
    /\ tree = TreeIdle
    /\ manifest = {}
    /\ orch = OrchIdle
    /\ clock = 0
    /\ sched = SchedIdle
    /\ TIMELINE = <<>>
    /\ rec = RecIdle
    /\ goal = GoalIdle
    /\ memory = MemoryIdle
    /\ session = SessionIdle
    /\ stream = StreamIdle
    /\ summary = SummaryIdle
    /\ planned = PlannedIdle
    /\ executor = ExecutorIdle
    /\ crun = CrunIdle
    /\ autorun = AutorunIdle
    /\ budget = BudgetIdle
    /\ cw = CwIdle

NextHeal ==
    \/ HealStart
    \/ HealRun
    \/ HealContext
    \/ HealApplyPatch
    \/ FixerStart
    \/ FixerTask
    \/ FixerFix

SpecHeal == InitHeal /\ [][NextHeal]_vars

-----------------------------------------------------------------------------
(* Claims about the self-healing loops, checked under SpecHeal.            *)

\* C1 (amended): unless the global dry-run flag is set, in which case the
\* call returns Ok with empty output without calling runner.run,
\* run_with_self_healing calls runner.run at most max_heal + 1 times,
\* requests and applies at most max_heal patches, returns the stdout of the
\* first run that succeeds (no run follows a success), and otherwise returns
\* an error right after the (max_heal + 1)-th failed run.
C1_BoundedHealing ==
    /\ heal.runs <= heal.max_heal + 1
    /\ heal.patchReq <= heal.max_heal
    /\ heal.applyCalls <= heal.max_heal
    /\ heal.applied <= heal.max_heal
    /\ heal.succeeded <= 1
    /\ heal.succeeded = 1 =>
          heal.pc = "done" /\ heal.result = "Ok" /\ heal.out = heal.lastOut
    /\ heal.result = "Ok" =>
          \/ heal.succeeded = 1
          \/ GLOBAL_DRY_RUN /\ heal.runs = 0 /\ heal.out = ""
    /\ heal.result = "HealingExhausted" =>
          heal.succeeded = 0 /\ heal.runs = heal.max_heal + 1
    /\ heal.runs = heal.max_heal + 1 =>
          heal.pc = "done" /\ heal.result \in {"Ok", "HealingExhausted"}
    /\ heal.pc = "done" => heal.result \in {"Ok", "HealingExhausted"}
    /\ (GLOBAL_DRY_RUN /\ heal.pc # "start") =>
          heal.pc = "done" /\ heal.result = "Ok" /\ heal.runs = 0

\* C1 as stated: a call that has returned either returned the stdout of a
\* run that succeeded or returned the error after max_heal + 1 failed runs.
C1_Original ==
    /\ heal.runs <= heal.max_heal + 1
    /\ heal.patchReq <= heal.max_heal
    /\ heal.applied <= heal.max_heal
    /\ heal.succeeded = 1 => heal.pc = "done" /\ heal.result = "Ok"
    /\ heal.pc = "done" =>
          \/ heal.result = "Ok" /\ heal.succeeded = 1
          \/ heal.result = "HealingExhausted" /\ heal.runs = heal.max_heal + 1

\* C1 witness: a call that used all of several heal cycles, applied patches
\* and ended with the error.
C1_Witness ==
    /\ heal.result = "HealingExhausted"
    /\ heal.max_heal >= 2
    /\ heal.runs = heal.max_heal + 1
    /\ heal.applied = heal.max_heal

\* C2: when the loop returns HealingExhausted the task queue holds one more
\* ScheduledTask than before the call.
C2_HealingPlanEnqueued ==
    heal.result = "HealingExhausted" => Len(TASK_QUEUE) = heal.queueBefore + 1

\* C3: once runner.run has rejected the command with PermissionDenied the
\* loop has returned an error after this single call: no patch was
\* requested or applied and the runner was not invoked again.
C3_DeniedNeverRetried ==
    heal.denied =>
        /\ heal.pc = "done"
        /\ heal.result # "Ok"
        /\ heal.runs = 1
        /\ heal.patchReq = 0
        /\ heal.applyCalls = 0

\* C4: in both loops a failed patch application uses one heal attempt and
\* the loop goes on: each failed application is covered by an advance of
\* the attempt counter, no patch is applied twice, and neither loop returns
\* because a patch failed to apply.
C4_FailedPatchProceeds ==
    /\ heal.failedApply <= heal.attempt
    /\ heal.applyCalls <= heal.patchReq
    /\ heal.failedApply > 0 => heal.result # "PatchApplyError"
    /\ fixer.failedApply <= fixer.attempt
    /\ fixer.failedApply > 0 => fixer.result # "PatchApplyError"

-----------------------------------------------------------------------------
(* main.rs: guard_command, run_and_capture and the /set handler            *)

GuardDenylist ==
    {"rm", "sudo", "shutdown", "reboot", "poweroff", "halt", "ifconfig",
     "ip", "iptables", "systemctl"}

GuardAllowlist ==
    {"cargo", "npm", "pnpm", "yarn", "go", "mvn", "pytest", "black", "gofmt",
     "clang", "gcc", "make", "git", "rg", "grep", "npx", "python", "node",
     "bash", "sh", "zsh", "fish", "ls", "cat", "echo", "pwd", "whoami"}

ArgRf == <<"-", "r", "f">>
ArgR == <<"-", "r">>
ArgF == <<"-", "f">>
ArgTarget == <<"t", "a", "r", "g", "e", "t">>
ArgBuild == <<"b", "u", "i", "l", "d">>

\* The CommandSpecs handed to run_and_capture.
ExecPrograms == {"rm", "sudo", "cargo", "ls", "mkfs", "dd"}
ExecArgs == {<<>>, <<ArgRf, ArgTarget>>, <<ArgR, ArgTarget>>, <<ArgBuild>>}

\* What the Confirm prompt yields: the two answers, or an I/O error.
Confirms == {"yes", "no", "error"}

\* spec.cmd == "rm" && args.iter().any(|a| a.contains("-rf") || a == "-r" || a == "-f")
IsDestructiveRm(spec) ==
    /\ spec.cmd = "rm"
    /\ \E i \in 1..Len(spec.args) :
          \/ Contains(spec.args[i], ArgRf)
          \/ spec.args[i] = ArgR
          \/ spec.args[i] = ArgF

\* A guard that forgets the allowlist.
guard_command_no_allowlist(spec, unsafe_mode, ask, confirm) ==
    IF unsafe_mode \/ spec.cmd \notin GuardDenylist
    THEN [ok |-> TRUE, prompted |-> FALSE, confirmed |-> FALSE, err |-> ""]
    ELSE [ok |-> FALSE, prompted |-> FALSE, confirmed |-> FALSE,
          err |-> "denied"]

\* guard_command(spec), in the order of the code: the unsafe_mode return, the
\* denylist, the destructive-rm prompt, the allowlist.
guard_command(spec, unsafe_mode, ask, confirm) ==
    LET prompt == IsDestructiveRm(spec) /\ ask IN
    IF unsafe_mode
    THEN [ok |-> TRUE, prompted |-> FALSE, confirmed |-> FALSE, err |-> ""]
    ELSE IF spec.cmd \in GuardDenylist
    THEN [ok |-> FALSE, prompted |-> FALSE, confirmed |-> FALSE,
          err |-> "denied"]
    ELSE IF prompt /\ confirm # "yes"
    THEN [ok |-> FALSE, prompted |-> TRUE, confirmed |-> FALSE,
          err |-> IF confirm = "no" THEN "aborted" ELSE "prompt_error"]
    ELSE IF spec.cmd \notin GuardAllowlist
    THEN [ok |-> FALSE, prompted |-> prompt, confirmed |-> prompt,
          err |-> "not_allowlisted"]
    ELSE [ok |-> TRUE, prompted |-> prompt, confirmed |-> prompt, err |-> ""]

\* value.parse::<bool>().unwrap_or(true)
ParseBoolOrTrue(value) ==
    IF value = "true" THEN TRUE ELSE IF value = "false" THEN FALSE ELSE TRUE

SetValues == {"true", "false", "True", "0"}

\* The REPL's `/set ask_before_destructive <value>`, between two turns.
SetAskBeforeDestructive ==
    /\ exec.pc \in {"idle", "done"}
    /\ \E value \in SetValues :
          CONFIG' = [CONFIG EXCEPT
                        !.ask_before_destructive = ParseBoolOrTrue(value)]
    /\ UNCHANGED <<UNSAFE_MODE, exec, rcall, GLOBAL_DRY_RUN, GLOBAL_GUARD>>
    /\ UNCHANGED nonGuardVars

\* run_and_capture(spec) is called.
ExecCall ==
    /\ exec.pc \in {"idle", "done"}
    /\ \E cmd \in ExecPrograms, args \in ExecArgs :
          exec' = [ExecIdle EXCEPT !.pc = "guard",
                                   !.spec = [cmd |-> cmd, args |-> args]]
    /\ UNCHANGED <<UNSAFE_MODE, CONFIG, rcall, GLOBAL_DRY_RUN, GLOBAL_GUARD>>
    /\ UNCHANGED nonGuardVars

\* guard_command(&spec)?
ExecGuard ==
    /\ exec.pc = "guard"
    /\ \E confirm \in Confirms :
          LET g == guard_command(exec.spec, UNSAFE_MODE,
                                 CONFIG.ask_before_destructive, confirm)
              e1 == [exec EXCEPT !.ask = CONFIG.ask_before_destructive,
                                 !.prompted = g.prompted,
                                 !.confirmed = g.confirmed,
                                 !.passed = g.ok]
          IN exec' = IF g.ok
                     THEN [e1 EXCEPT !.pc = "logs"]
                     ELSE [e1 EXCEPT !.pc = "done",
                                     !.result = "GuardrailBlocked",
                                     !.err = g.err]
    /\ UNCHANGED <<UNSAFE_MODE, CONFIG, rcall, GLOBAL_DRY_RUN, GLOBAL_GUARD>>
    /\ UNCHANGED nonGuardVars

\* Open the log file and the tee file and write the header; each step has `?`.
ExecOpenLogs ==
    /\ exec.pc = "logs"
    /\ \E ok \in BOOLEAN :
          exec' = IF ok
                  THEN [exec EXCEPT !.pc = "spawn"]
                  ELSE [exec EXCEPT !.pc = "done", !.result = "IoError",
                                    !.err = "io"]
    /\ UNCHANGED <<UNSAFE_MODE, CONFIG, rcall, GLOBAL_DRY_RUN, GLOBAL_GUARD>>
    /\ UNCHANGED nonGuardVars

\* command.spawn().with_context(..)?  -- a program that is not on PATH cannot
\* be spawned.
ExecSpawn ==
    /\ exec.pc = "spawn"
    /\ \E ok \in (IF exec.spec.cmd \in manifest THEN BOOLEAN ELSE {FALSE}) :
          exec' = IF ok
                  THEN [exec EXCEPT !.pc = "wait", !.spawned = TRUE]
                  ELSE [exec EXCEPT !.pc = "done", !.result = "SpawnError",
                                    !.err = "spawn_failed"]
    /\ UNCHANGED <<UNSAFE_MODE, CONFIG, rcall, GLOBAL_DRY_RUN, GLOBAL_GUARD>>
    /\ UNCHANGED nonGuardVars

\* Stream the output into the logs (writeln!(..)?), wait for the child
\* (child.wait().await?) and return Ok(RunResult) with whatever exit code
\* the child had.
ExecWait ==
    /\ exec.pc = "wait"
    /\ \E code \in {0, 1}, ok \in BOOLEAN :
          exec' = IF ok
                  THEN [exec EXCEPT !.pc = "done", !.result = "Ok",
                                    !.exit_code = code]
                  ELSE [exec EXCEPT !.pc = "done", !.result = "IoError",
                                    !.err = "io"]
    /\ UNCHANGED <<UNSAFE_MODE, CONFIG, rcall, GLOBAL_DRY_RUN, GLOBAL_GUARD>>
    /\ UNCHANGED nonGuardVars

\* The commands handed to CommandRunner::run.
RunnerCommands == {CmdCargoBuild, CmdRmRf, CmdMake, CmdGitSudo}

\* One whole call of CommandRunner::run(command), between two calls of
\* run_and_capture, with its outcome recorded.
RunnerCall ==
    /\ exec.pc \in {"idle", "done"}
    /\ \E command \in RunnerCommands, resp \in Responses :
       \E r \in {[spawns |-> x.spawns, ok |-> x.ok] :
                   x \in RunnerRun(command, runner, GLOBAL_GUARD,
                                   GLOBAL_DRY_RUN, resp)} :
          LET g == guard_check(command, GLOBAL_GUARD, resp) IN
          rcall' = [command |-> command, resp |-> resp,
                    prompted |-> g.prompted, verdict |-> g.verdict,
                    spawns |-> r.spawns, ok |-> r.ok]
    /\ UNCHANGED <<UNSAFE_MODE, CONFIG, exec, GLOBAL_DRY_RUN, GLOBAL_GUARD>>
    /\ UNCHANGED nonGuardVars

InitGuard ==
    /\ GLOBAL_DRY_RUN \in BOOLEAN
    /\ GLOBAL_GUARD \in BOOLEAN
    /\ GLOBAL_TIMELINE = <<>>
    /\ TASK_QUEUE = <<>>
    /\ envDryRun = FALSE
    /\ runner \in [max_retries : 0..MaxRetries]
    /\ heal = HealIdle
    /\ fixer = FixerIdle
    /\ UNSAFE_MODE \in BOOLEAN
    /\ CONFIG = [ask_before_destructive |-> TRUE]
    /\ exec = ExecIdle
    /\ rcall = RcallIdle
    /\ disk = DiskIdle
    /\ aw = AwIdle
    /\ tree = TreeIdle
    /\ manifest = ExecPrograms
    /\ orch = OrchIdle
    /\ clock = 0
    /\ sched = SchedIdle
    /\ TIMELINE = <<>>
    /\ rec = RecIdle
    /\ goal = GoalIdle
    /\ memory = MemoryIdle
    /\ session = SessionIdle
    /\ stream = StreamIdle
    /\ summary = SummaryIdle
    /\ planned = PlannedIdle
    /\ executor = ExecutorIdle
    /\ crun = CrunIdle
    /\ autorun = AutorunIdle
    /\ budget = BudgetIdle
    /\ cw = CwIdle

NextGuard ==
    \/ SetAskBeforeDestructive
    \/ ExecCall
    \/ ExecGuard
    \/ ExecOpenLogs
    \/ ExecSpawn
    \/ ExecWait
    \/ RunnerCall

SpecGuard == InitGuard /\ [][NextGuard]_vars

-----------------------------------------------------------------------------
(* Claims about the guardrails, checked under SpecGuard.                   *)

\* A command of CommandRunner::run holds a denylisted pattern.
HasDenyPattern(command) ==
    \E i \in 1..Len(DENYLIST) : Contains(command, DENYLIST[i])

\* C5 (amended): guardrails are applied before spawn.  In run_and_capture,
\* unless unsafe_mode is set a program that is in the denylist or outside the
\* allowlist is rejected and never spawned; with unsafe_mode set every
\* program passes the guard, the denylisted ones included.  In
\* CommandRunner::run a command holding a denylisted pattern is never
\* spawned, and one whose first token is outside the allowlist is spawned
\* only after the user was prompted and answered y or yes.  A rejected
\* command starts no child process.
C5_GuardrailsBeforeSpawn ==
    /\ exec.spawned =>
          \/ UNSAFE_MODE
          \/ exec.spec.cmd \notin GuardDenylist /\ exec.spec.cmd \in GuardAllowlist
    /\ exec.spawned => exec.passed
    /\ exec.result = "GuardrailBlocked" => ~exec.passed /\ ~exec.spawned
    /\ (UNSAFE_MODE /\ exec.pc \notin {"idle", "guard"}) => exec.passed
    /\ (~UNSAFE_MODE /\ exec.pc \notin {"idle", "guard"}
        /\ (exec.spec.cmd \in GuardDenylist \/ exec.spec.cmd \notin GuardAllowlist))
          => exec.result = "GuardrailBlocked"
    /\ rcall.spawns > 0 =>
          /\ ~HasDenyPattern(rcall.command)
          /\ \/ FirstToken(rcall.command) \in ALLOWLIST
             \/ GLOBAL_GUARD /\ rcall.prompted /\ rcall.resp \in {"y", "yes"}
    /\ rcall.verdict = "PermissionDenied" => rcall.spawns = 0 /\ ~rcall.ok

\* C5 witness: run_and_capture has rejected a program outside the allowlist
\* without a child, and CommandRunner::run has spawned a command outside its
\* allowlist after a confirmed prompt.
C5_Witness ==
    /\ ~UNSAFE_MODE
    /\ exec.pc = "done"
    /\ exec.spec.cmd = "mkfs"
    /\ exec.result = "GuardrailBlocked"
    /\ rcall.command = CmdMake
    /\ rcall.prompted
    /\ rcall.spawns > 0

\* C5 as stated: a denylisted program is never spawned, and a program
\* outside the allowlist is spawned only when unsafe_mode is set.
C5_Original ==
    /\ exec.spawned =>
          /\ exec.spec.cmd \notin GuardDenylist
          /\ exec.spec.cmd \in GuardAllowlist \/ UNSAFE_MODE
    /\ exec.result = "GuardrailBlocked" => ~exec.spawned
    /\ rcall.spawns > 0 =>
          /\ ~HasDenyPattern(rcall.command)
          /\ FirstToken(rcall.command) \in ALLOWLIST \/ UNSAFE_MODE
    /\ rcall.verdict = "PermissionDenied" => rcall.spawns = 0

\* C6: while ask_before_destructive is true a destructive rm command reaches
\* spawn if and only if the user was prompted and confirmed.
C6_DestructiveNeedsConfirmation ==
    (exec.pc \notin {"idle", "guard"} /\ IsDestructiveRm(exec.spec) /\ exec.ask)
        => /\ exec.spawned => exec.prompted /\ exec.confirmed
           /\ (exec.prompted /\ exec.confirmed) => exec.passed

-----------------------------------------------------------------------------
(* fsutil.rs: atomic_write                                                 *)

\* The longest content written.
MaxLen == 2

Max(S) == CHOOSE x \in S : \A y \in S : x >= y

NameARs == <<"a", ".", "r", "s">>
NameEnv == <<".", "e", "n", "v">>
ExtTmpWrite == <<"t", "m", "p", ".", "w", "r", "i", "t", "e">>

\* A variant that hands back the path itself, so the write goes to the target.
with_extension_in_place(name, ext) == name

\* Path::with_extension on the file name: the extension is what follows the
\* last dot, a leading dot not counted.
with_extension(name, ext) ==
    LET dots == {i \in 2..Len(name) : name[i] = "."}
        stem == IF dots = {} THEN name ELSE SubSeq(name, 1, Max(dots) - 1)
    IN stem \o <<".">> \o ext

\* The paths handed to atomic_write: a directory ("" or "sub") and a name.
AwDirs == {"", "sub"}
AwNames == {NameARs, NameEnv}
AwTargets == {[dir |-> d, name |-> n] : d \in AwDirs, n \in AwNames}

\* let tmp = path.with_extension("tmp.write")
TmpOf(path) == [dir |-> path.dir, name |-> with_extension(path.name, ExtTmpWrite)]

DiskNodes == AwTargets \cup {TmpOf(t) : t \in AwTargets}

\* The contents written: the byte strings 1..n.
AwContents == {[i \in 1..n |-> i] : n \in 0..MaxLen}

OldData == <<9>>
FileEntry(data) == [kind |-> "file", data |-> data]
DirEntry == [kind |-> "dir", data |-> <<>>]

\* The state of the file system before a call: every node is absent, a
\* directory or a file with older content; nothing exists under "sub" unless
\* it is a directory.
InitialDisks ==
    {d \in [sub : {"none", "dir", "file"},
            files : [DiskNodes -> {NoEntry, DirEntry, FileEntry(OldData)}]] :
        \A n \in DiskNodes :
            (n.dir = "sub" /\ d.sub # "dir") => d.files[n] = NoEntry}

\* atomic_write(path, content) is called.
AwCall ==
    /\ aw.pc = "idle"
    /\ \E path \in AwTargets, content \in AwContents :
          aw' = [pc |-> "mkdir", path |-> path, content |-> content,
                 before |-> disk.files[path], result |-> "none"]
    /\ UNCHANGED disk
    /\ UNCHANGED nonFsVars

\* std::fs::create_dir_all(parent)?
AwCreateDirAll ==
    /\ aw.pc = "mkdir"
    /\ \/ /\ aw.path.dir = "" \/ disk.sub = "dir"
          /\ aw' = [aw EXCEPT !.pc = "write"]
          /\ UNCHANGED disk
       \/ /\ aw.path.dir = "sub" /\ disk.sub = "none"
          /\ \E ok \in BOOLEAN :
                IF ok
                THEN /\ disk' = [disk EXCEPT !.sub = "dir"]
                     /\ aw' = [aw EXCEPT !.pc = "write"]
                ELSE /\ UNCHANGED disk
                     /\ aw' = [aw EXCEPT !.pc = "done", !.result = "MkdirError"]
       \/ /\ aw.path.dir = "sub" /\ disk.sub = "file"
          /\ aw' = [aw EXCEPT !.pc = "done", !.result = "MkdirError"]
          /\ UNCHANGED disk
    /\ UNCHANGED nonFsVars

\* fs::write(&tmp, content)?  -- create or truncate tmp, then write_all; the
\* write can fail before the file is opened or after k bytes.
AwWriteTmp ==
    /\ aw.pc = "write"
    /\ LET tmp == TmpOf(aw.path) IN
       \/ /\ disk.files[tmp].kind # "dir"
          /\ disk' = [disk EXCEPT !.files[tmp] = FileEntry(aw.content)]
          /\ aw' = [aw EXCEPT !.pc = "rename"]
       \/ /\ UNCHANGED disk
          /\ aw' = [aw EXCEPT !.pc = "done", !.result = "WriteError"]
       \/ /\ disk.files[tmp].kind # "dir"
          /\ \E k \in 0..(Len(aw.content) - 1) :
                disk' = [disk EXCEPT
                            !.files[tmp] = FileEntry(SubSeq(aw.content, 1, k))]
          /\ aw' = [aw EXCEPT !.pc = "done", !.result = "WriteError"]
    /\ UNCHANGED nonFsVars

\* fs::rename(&tmp, path)?  -- atomic: the target is replaced or untouched.
AwRename ==
    /\ aw.pc = "rename"
    /\ LET tmp == TmpOf(aw.path) IN
       \/ /\ disk.files[aw.path].kind # "dir"
          /\ disk' = IF tmp = aw.path THEN disk
                     ELSE [disk EXCEPT !.files[aw.path] = disk.files[tmp],
                                       !.files[tmp] = NoEntry]
          /\ aw' = [aw EXCEPT !.pc = "done", !.result = "Ok"]
       \/ /\ UNCHANGED disk
          /\ aw' = [aw EXCEPT !.pc = "done", !.result = "RenameError"]
    /\ UNCHANGED nonFsVars

InitFs ==
    /\ GLOBAL_DRY_RUN = FALSE
    /\ GLOBAL_GUARD = FALSE
    /\ GLOBAL_TIMELINE = <<>>
    /\ TASK_QUEUE = <<>>
    /\ envDryRun = FALSE
    /\ runner = [max_retries |-> 0]
    /\ heal = HealIdle
    /\ fixer = FixerIdle
    /\ UNSAFE_MODE = FALSE
    /\ CONFIG = [ask_before_destructive |-> TRUE]
    /\ exec = ExecIdle
    /\ rcall = RcallIdle
    /\ disk \in InitialDisks
    /\ aw = AwIdle
    /\ tree = TreeIdle
    /\ manifest = {}
    /\ orch = OrchIdle
    /\ clock = 0
    /\ sched = SchedIdle
    /\ TIMELINE = <<>>
    /\ rec = RecIdle
    /\ goal = GoalIdle
    /\ memory = MemoryIdle
    /\ session = SessionIdle
    /\ stream = StreamIdle
    /\ summary = SummaryIdle
    /\ planned = PlannedIdle
    /\ executor = ExecutorIdle
    /\ crun = CrunIdle
    /\ autorun = AutorunIdle
    /\ budget = BudgetIdle
    /\ cw = CwIdle

NextFs ==
    \/ AwCall
    \/ AwCreateDirAll
    \/ AwWriteTmp
    \/ AwRename

SpecFs == InitFs /\ [][NextFs]_vars

-----------------------------------------------------------------------------
(* Claims about atomic_write, checked under SpecFs.                        *)

\* C9: atomic_write(p, c) is all-or-nothing.  When it has returned Ok,
\* reading p yields exactly c; when it has returned an error, whichever step
\* failed (create_dir_all, the write of the temporary file, the rename), p
\* is what it was before the call; and at no point of the call does p hold
\* anything but its prior state or the whole of c.
C9_AtomicWrite ==
    /\ (aw.pc = "done" /\ aw.result = "Ok") =>
          disk.files[aw.path] = FileEntry(aw.content)
    /\ (aw.pc = "done" /\ aw.result # "Ok") => disk.files[aw.path] = aw.before
    /\ aw.pc \in {"mkdir", "write", "rename"} =>
          disk.files[aw.path] = aw.before
    /\ aw.pc = "done" => aw.result \in {"Ok", "MkdirError", "WriteError",
                                         "RenameError"}

\* C9 witness: the write of the temporary file failed half way over an
\* existing target, which still holds its prior content.
C9_Witness ==
    /\ aw.pc = "done"
    /\ aw.result = "WriteError"
    /\ aw.before = FileEntry(OldData)
    /\ Len(aw.content) = 2
    /\ disk.files[TmpOf(aw.path)] = FileEntry(SubSeq(aw.content, 1, 1))

-----------------------------------------------------------------------------
(* planner.rs: plan_changes and fallback_plan.  A path is a sequence of    *)
(* components; an absolute path starts with "/".                           *)

\* The project root, as a canonical path from the file system root.
Root == <<"proj">>

\* root.join(p): an absolute p replaces the root.
Join(root, p) == IF p # <<>> /\ p[1] = "/" THEN Tail(p) ELSE root \o p

\* canonicalize: ".." and "." resolved (the model has no symbolic links).
RECURSIVE Canon(_)
Canon(p) ==
    IF p = <<>> THEN <<>>
    ELSE LET c == Canon(SubSeq(p, 1, Len(p) - 1))
             last == p[Len(p)]
         IN IF last = ".."
            THEN (IF c = <<>> THEN <<>> ELSE SubSeq(c, 1, Len(c) - 1))
            ELSE IF last = "." THEN c
            ELSE Append(c, last)

\* canon.starts_with(&root_canon)
StartsWith(p, root) == Len(p) >= Len(root) /\ SubSeq(p, 1, Len(root)) = root

\* Path::exists for an absolute path.
Exists(t, abs) == Canon(abs) \in DOMAIN t /\ t[Canon(abs)] # "absent"

\* The files of the model, by canonical path: three in the project, one
\* beside it.
FileCargoToml == <<"proj", "Cargo.toml">>
FilePackageJson == <<"proj", "package.json">>
FileARs == <<"proj", "a.rs">>
FileOutside == <<"outside.rs">>
OrchFiles == {FileCargoToml, FilePackageJson, FileARs, FileOutside}

\* The path tokens a request can hold, as the token regex extracts them.
PathA == <<"a.rs">>
PathOutside == <<"..", "outside.rs">>
PathMissing == <<"new.rs">>
RequestPathSets == {{}, {PathA, PathOutside}, {PathMissing}}

\* The needles of contains_any that occur in a request.
RequestWords == {"edit", "build", "run"}
Requests == [words : SUBSET RequestWords, paths : RequestPathSets]

\* contains_any(hay, needles)
contains_any(request, needles) == request.words \cap needles # {}

Probes ==
    << <<"src", "main.rs">>, <<"Cargo.toml">>, <<"package.json">>,
       <<"pyproject.toml">>, <<"README.md">>, <<"readme.md">> >>

\* The registry entries the model keeps, in registry order, each with the
\* file its detector looks for.
TOOLS ==
    << [name |-> "cargo", marker |-> <<"Cargo.toml">>],
       [name |-> "npm", marker |-> <<"package.json">>] >>

\* detect_tool(root): the first tool whose detector fires, or 0.
detect_tool(t) ==
    LET hits == {i \in 1..Len(TOOLS) : Exists(t, Join(Root, TOOLS[i].marker))}
    IN IF hits = {} THEN 0 ELSE Min(hits)

DEFAULT_RETRIES == 3

ArgTest == <<"t", "e", "s", "t">>
ArgRun == <<"r", "u", "n">>
ArgDev == <<"d", "e", "v">>
ArgQuiet == <<"-", "-", "q", "u", "i", "e", "t">>

\* A sub-command as an argument of the command line.
ArgOf(cmd) ==
    CASE cmd = "build" -> ArgBuild
      [] cmd = "test" -> ArgTest
      [] cmd = "run" -> ArgRun
      [] cmd = "dev" -> ArgDev

\* run_cargo / run_npm: the Action::Run for a sub-command.
run_tool(tool, cmd) ==
    [program |-> tool.name,
     args |-> IF tool.name = "npm" THEN <<ArgRun, ArgOf(cmd)>> ELSE <<ArgOf(cmd)>>,
     log_hint |-> cmd, retries |-> DEFAULT_RETRIES]

\* The orders in which a HashSet can be drained into a Vec.
Orders(S) ==
    {q \in [1..Cardinality(S) -> S] :
        \A i, j \in 1..Cardinality(S) : q[i] = q[j] => i = j}

PlanCap == 6

\* while read.len() + edit.len() > 6 { pop from read, else from edit }
RECURSIVE CapPlan(_, _)
CapPlan(read, edit) ==
    IF Len(read) + Len(edit) <= PlanCap THEN [read |-> read, edit |-> edit]
    ELSE IF read # <<>> THEN CapPlan(SubSeq(read, 1, Len(read) - 1), edit)
    ELSE CapPlan(read, SubSeq(edit, 1, Len(edit) - 1))

\* The actions fallback_plan pushes: build, test, run.
PlanActions(t, request) ==
    LET k == detect_tool(t) IN
    IF k = 0 THEN <<>>
    ELSE LET tool == TOOLS[k]
             dev == IF tool.name = "npm" THEN "dev" ELSE "run"
         IN (IF contains_any(request, {"build", "compile"})
             THEN <<run_tool(tool, "build")>> ELSE <<>>)
            \o (IF contains_any(request, {"test", "unit test", "pytest", "cargo test"})
                THEN <<run_tool(tool, "test")>> ELSE <<>>)
            \o (IF contains_any(request, {"run", "start server", "start dev", "dev server"})
                THEN <<run_tool(tool, dev)>> ELSE <<>>)

\* fallback_plan(root, user_request): the plans it can return, one for each
\* order in which the two HashSets are drained.
fallback_plan(t, request) ==
    LET found == {c \in request.paths : Exists(t, Join(Root, c))}
        isEdit == contains_any(request, {"edit", "modify", "change", "refactor", "add"})
        edit_set == IF isEdit THEN found ELSE {}
        read0 == IF isEdit THEN {} ELSE found
        read_set == IF read0 = {} /\ edit_set = {}
                    THEN {Probes[i] : i \in {j \in 1..Len(Probes) :
                                               Exists(t, Join(Root, Probes[j]))}}
                    ELSE read0
    IN {LET capped == CapPlan(r, e) IN
        [read |-> capped.read, edit |-> capped.edit,
         actions |-> PlanActions(t, request),
         notes |-> IF capped.edit = <<>> THEN "no_edit_targets" ELSE ""] :
            r \in Orders(read_set), e \in Orders(edit_set)}

\* plan_changes(root, user_request): the LLM call is a stub that fails, so
\* the plan is the fallback plan with the budget note appended.
plan_changes(t, request) ==
    {[pl EXCEPT !.notes = IF @ = "" THEN "budget" ELSE "no_edit_targets+budget"] :
        pl \in fallback_plan(t, request)}

-----------------------------------------------------------------------------
(* main.rs: high_level_orchestrate, orchestrate and verify_project         *)

\* for attempt in 1..=3
OuterAttempts == 3

\* What one call of orchestrate did, in order: "read" and "write" of a
\* canonical path, "export" of a patch number, "exec" when run_and_capture
\* is called for an action, "spawn" when its child was started and
\* "timeline" when add_timeline_entry was called.
Ev(op, what) == [op |-> op, what |-> what]

\* add_timeline_entry(start, end, agent, "N/A", 0, verdict), together with
\* what the entry is about: which edit or action of the plan (0 for the
\* plan itself), whether a child process ran and its exit code.
TimelineEv(agent, verdict, item, ran, exit_code) ==
    Ev("timeline", [agent |-> agent, verdict |-> verdict, item |-> item,
                    ran |-> ran, exit_code |-> exit_code])

\* match run_and_capture(spec.clone()).await { Ok(res) => "success",
\* Err(e) => "failure" }: the exit code is printed and not looked at.
ExecutorVerdict(result, exit_code) ==
    IF result = "Ok" THEN "success" ELSE "failure"

\* agent_diagnostics.log is kept in two parts: diag, the lines that
\* high_level_orchestrate wrote, in order, each with the arm that wrote it
\* and the attempt it was written in; and cmd_diag, the error texts of the
\* "Command error: .." lines that orchestrate wrote.
DiagLine(kind, attempt) == [kind |-> kind, attempt |-> attempt]

\* The arm of the match in high_level_orchestrate that an error lands in:
\* verify_project's error or orchestrate's.
FailureKind(o) ==
    IF o.pc \in {"verify", "await_verify"} THEN "verification" ELSE "orchestration"

\* The error came out of one of the two loops over plan.edit: the bail! on
\* a failed propose_edit, or a `?` on the patch write, on atomic_write or on
\* the agent.log line.
EditFailed(o) == o.pc \in {"propose", "apply"}

\* What the call of orchestrate that returns Err here leaves undone: the
\* edits after the current one that were not yet applied, and the actions.
ItemsLeft(o) ==
    IF o.pc \in {"propose", "apply"}
    THEN (IF o.pc = "propose" THEN Len(o.plan.edit) - 1
          ELSE Len(o.plan.edit) - o.ei) + Len(o.plan.actions)
    ELSE IF o.pc = "persist_edits" THEN Len(o.plan.actions)
    ELSE 0

\* The bookkeeping of a failed attempt: log_diagnostic(..).ok() (a failure
\* of the write itself is ignored) and last_err = Some(e).
RecordFailure(o) ==
    [o EXCEPT !.failed = @ + 1,
              !.err = [at |-> o.attempt,
                       what |-> IF EditFailed(o) THEN "edit" ELSE FailureKind(o),
                       left |-> ItemsLeft(o)],
              !.diag = Append(@, DiagLine(FailureKind(o), o.attempt))]

\* A loop that goes round once more than `for attempt in 1..=3`.
AttemptFailedOnceMore(o) ==
    IF o.attempt <= OuterAttempts
    THEN [RecordFailure(o) EXCEPT
             !.pc = "plan", !.attempt = @ + 1, !.plan = NoPlan,
             !.ei = 0, !.ai = 0, !.patch_counter = 1, !.log = <<>>]
    ELSE [RecordFailure(o) EXCEPT !.pc = "done", !.result = "Err"]

\* orchestrate or verify_project returned Err: the diagnostic line, then the
\* next attempt, or the return of the last error after the third.
AttemptFailed(o) ==
    IF o.attempt < OuterAttempts
    THEN [RecordFailure(o) EXCEPT
             !.pc = "plan", !.attempt = @ + 1, !.plan = NoPlan,
             !.ei = 0, !.ai = 0, !.patch_counter = 1, !.log = <<>>]
    ELSE [RecordFailure(o) EXCEPT !.pc = "done", !.result = "Err"]

\* Where orchestrate goes once the plan is there.
PhaseAfterPlanActionsOnly(plan) ==
    IF plan.edit = <<>> /\ plan.actions = <<>> THEN "summary" ELSE "actions"

PhaseAfterPlan(plan) ==
    IF plan.edit = <<>> /\ plan.actions = <<>> THEN "summary"
    ELSE IF plan.edit # <<>> THEN "propose"
    ELSE "actions"

\* high_level_orchestrate(root, request, export_patch, patch_dir, env,
\* dry_run) is called: fs::read_dir(root)? and the first attempt.  The turn
\* and the scheduler share no state but the files; a behaviour follows one
\* of the two.
OrchStart ==
    /\ orch.pc = "idle"
    /\ sched.pc = "idle" /\ TASK_QUEUE = <<>>
    /\ \E request \in Requests, export_patch \in BOOLEAN, dry_run \in BOOLEAN,
          ok \in BOOLEAN :
          orch' = IF ok
                  THEN [OrchIdle EXCEPT !.pc = "plan", !.request = request,
                                        !.export_patch = export_patch,
                                        !.dry_run = dry_run, !.attempt = 1]
                  ELSE [OrchIdle EXCEPT !.pc = "done", !.request = request,
                                        !.export_patch = export_patch,
                                        !.dry_run = dry_run, !.result = "Err",
                                        !.err = [at |-> 0, what |-> "read_dir", left |-> 0]]
    /\ UNCHANGED <<tree, manifest>>
    /\ UNCHANGED <<nonOrchVars, guardVars>>

\* The kinds of line a turn has appended to agent.log: "note" for the
\* progress notes of append_log, "write" for the `<epoch> <abs_path>` record
\* of an edit that was written.
AppendedToAgentLog(o, kind) == [o EXCEPT !.agent_log = @ \cup {kind}]

\* orchestrate has its plan: the Planner timeline entry, persist_state and
\* append_log(root, "Planning completed").
PlanAccepted(o, pl) ==
    AppendedToAgentLog(
        [o EXCEPT !.plan = pl, !.pc = PhaseAfterPlan(pl), !.ei = 1, !.ai = 1,
                  !.log = <<TimelineEv("Planner", "success", 0, FALSE, 0)>>],
        "note")

\* orchestrate, step 1: plan_changes (file_inventory can fail), then
\* persist_state and append_log.
OrchPlan ==
    /\ orch.pc = "plan"
    /\ \/ \E pl \in plan_changes(tree, orch.request) :
             orch' = PlanAccepted(orch, pl)
       \/ orch' = AttemptFailed(orch)
    /\ UNCHANGED <<tree, manifest>>
    /\ UNCHANGED <<nonOrchVars, guardVars>>

\* The files the informational path reads: plan.read, or the probes.
Picked(t, plan) ==
    IF plan.read # <<>> THEN plan.read
    ELSE LET P == <<Probes[5], Probes[6], Probes[2], Probes[3], Probes[4], Probes[1]>>
         IN SelectSeq(P, LAMBDA x : Exists(t, Join(Root, x)))

\* The reads of the files of a list that can be read.
RECURSIVE ReadEvents(_, _)
ReadEvents(t, paths) ==
    IF paths = <<>> THEN <<>>
    ELSE (IF Exists(t, Join(Root, Head(paths)))
          THEN <<Ev("read", Canon(Join(Root, Head(paths))))>> ELSE <<>>)
         \o ReadEvents(t, Tail(paths))

\* orchestrate, step 2: a plan without edits and actions is answered with a
\* summary of the picked files; then persist_state and append_log.
OrchSummary ==
    /\ orch.pc = "summary"
    /\ \E ok \in BOOLEAN :
          LET o1 == [orch EXCEPT
                        !.log = @ \o ReadEvents(tree, Picked(tree, orch.plan))]
          IN orch' = IF ok
                     THEN AppendedToAgentLog([o1 EXCEPT !.pc = "verify"], "note")
                     ELSE AttemptFailed(o1)
    /\ UNCHANGED <<tree, manifest>>
    /\ UNCHANGED <<nonOrchVars, guardVars>>

\* orchestrate, step 3, first loop: read the file of one EditPlan and ask
\* the LLM for its new content; an LLM failure bails.
OrchProposeEdit ==
    /\ orch.pc = "propose"
    /\ orch.ei <= Len(orch.plan.edit)
    /\ \E ok \in BOOLEAN :
          LET o1 == [orch EXCEPT
                        !.log = @ \o ReadEvents(tree, <<orch.plan.edit[orch.ei]>>)]
              o2 == [o1 EXCEPT
                        !.log = Append(@, TimelineEv("Codegen", "success", orch.ei, FALSE, 0))]
          IN orch' = IF ~ok THEN AttemptFailed(o1)
                     ELSE IF orch.ei = Len(orch.plan.edit)
                     THEN [o2 EXCEPT !.pc = "apply", !.ei = 1]
                     ELSE [o2 EXCEPT !.ei = @ + 1]
    /\ UNCHANGED <<tree, manifest>>
    /\ UNCHANGED <<nonOrchVars, guardVars>>

\* orchestrate, step 3, second loop: one proposal is skipped (dry run),
\* exported as NNN.patch, or written with atomic_write and noted in
\* agent.log; each write has `?`.
OrchApplyEdit ==
    /\ orch.pc = "apply"
    /\ orch.ei <= Len(orch.plan.edit)
    /\ LET abs == Canon(Join(Root, orch.plan.edit[orch.ei]))
           next == IF orch.ei = Len(orch.plan.edit) THEN "persist_edits" ELSE "apply"
       IN IF orch.dry_run
          THEN /\ orch' = [orch EXCEPT !.ei = @ + 1, !.pc = next]
               /\ UNCHANGED tree
          ELSE IF orch.export_patch
          THEN /\ \E ok \in BOOLEAN :
                     LET o1 == [orch EXCEPT !.patch_counter = @ + 1] IN
                     orch' = IF ok
                             THEN [o1 EXCEPT !.ei = @ + 1, !.pc = next,
                                             !.log = Append(@, Ev("export", orch.patch_counter)),
                                             !.patch_dir = Append(@, orch.patch_counter)]
                             ELSE AttemptFailed(o1)
               /\ UNCHANGED tree
          ELSE \E wrote \in BOOLEAN, logged \in BOOLEAN :
                  IF ~wrote
                  THEN /\ orch' = AttemptFailed(orch)
                       /\ UNCHANGED tree
                  ELSE /\ tree' = [tree EXCEPT ![abs] = "edited"]
                       /\ LET o1 == [orch EXCEPT !.log = Append(@, Ev("write", abs))]
                          IN orch' = IF logged
                                     THEN AppendedToAgentLog(
                                              [o1 EXCEPT !.ei = @ + 1, !.pc = next],
                                              "write")
                                     ELSE AttemptFailed(o1)
    /\ UNCHANGED manifest
    /\ UNCHANGED <<nonOrchVars, guardVars>>

\* persist_state(root, "Proposals applied")?; append_log(..)?
OrchPersistProposals ==
    /\ orch.pc = "persist_edits"
    /\ \E ok \in BOOLEAN :
          orch' = IF ok
                  THEN AppendedToAgentLog([orch EXCEPT !.pc = "actions", !.ai = 1],
                                          "note")
                  ELSE AttemptFailed(orch)
    /\ UNCHANGED <<tree, manifest>>
    /\ UNCHANGED <<nonOrchVars, guardVars>>

\* orchestrate, step 4: one action is skipped (dry run) or handed to
\* run_and_capture.
OrchRunAction ==
    /\ orch.pc = "actions"
    /\ orch.ai <= Len(orch.plan.actions)
    /\ LET a == orch.plan.actions[orch.ai] IN
       IF orch.dry_run
       THEN /\ orch' = [orch EXCEPT !.ai = @ + 1]
            /\ UNCHANGED exec
       ELSE /\ exec' = [ExecIdle EXCEPT
                           !.pc = "guard",
                           !.spec = [cmd |-> a.program, args |-> a.args]]
            /\ orch' = [orch EXCEPT !.pc = "await_action",
                                    !.log = Append(@, Ev("exec", a.program))]
    /\ UNCHANGED <<tree, manifest, UNSAFE_MODE, CONFIG, rcall>>
    /\ UNCHANGED nonOrchVars

\* run_and_capture has returned: Ok or Err, the loop goes to the next action.
OrchActionReturn ==
    /\ orch.pc = "await_action"
    /\ exec.pc = "done"
    /\ orch' = [orch EXCEPT
                   !.pc = "actions", !.ai = @ + 1,
                   !.log = (IF exec.spawned
                            THEN Append(@, Ev("spawn", exec.spec.cmd)) ELSE @)
                           \o <<TimelineEv("Executor",
                                            ExecutorVerdict(exec.result, exec.exit_code),
                                            orch.ai, exec.spawned, exec.exit_code)>>,
                   !.cmd_diag = IF exec.result # "Ok"
                                THEN @ \cup {exec.err} ELSE @]
    /\ exec' = ExecIdle
    /\ UNCHANGED <<tree, manifest, UNSAFE_MODE, CONFIG, rcall>>
    /\ UNCHANGED nonOrchVars

\* persist_state(root, "Actions executed")?; append_log(..)?; Ok(())
OrchFinishActions ==
    /\ orch.pc = "actions"
    /\ orch.ai > Len(orch.plan.actions)
    /\ \E ok \in BOOLEAN :
          orch' = IF ok
                  THEN AppendedToAgentLog([orch EXCEPT !.pc = "verify"], "note")
                  ELSE AttemptFailed(orch)
    /\ UNCHANGED <<tree, manifest>>
    /\ UNCHANGED <<nonOrchVars, guardVars>>

\* The end of a verified attempt: persist_state(..)?; append_log(..)?;
\* return Ok(()).
AttemptVerified(o, ok) ==
    IF ok
    THEN AppendedToAgentLog([o EXCEPT !.pc = "done", !.result = "Ok"], "note")
    ELSE [o EXCEPT !.pc = "done", !.result = "Err",
                   !.err = [at |-> o.attempt, what |-> "persist", left |-> 0]]

\* A verification that forgets the dry-run return.
VerifyRunsTestsAlways(t, dry_run) == Exists(t, Join(Root, <<"Cargo.toml">>))

\* verify_project(root, dry_run) runs `cargo test`: not under dry run, and
\* only if root.join("Cargo.toml").exists().
VerifyRunsTests(t, dry_run) ==
    ~dry_run /\ Exists(t, Join(Root, <<"Cargo.toml">>))

\* verify_project: nothing under dry run or without Cargo.toml, otherwise
\* `cargo test --quiet` through run_and_capture.
OrchVerify ==
    /\ orch.pc = "verify"
    /\ IF VerifyRunsTests(tree, orch.dry_run)
       THEN /\ exec' = [ExecIdle EXCEPT
                           !.pc = "guard",
                           !.spec = [cmd |-> "cargo",
                                     args |-> <<ArgTest, ArgQuiet>>]]
            /\ orch' = [orch EXCEPT !.pc = "await_verify"]
       ELSE /\ \E ok \in BOOLEAN : orch' = AttemptVerified(orch, ok)
            /\ UNCHANGED exec
    /\ UNCHANGED <<tree, manifest, UNSAFE_MODE, CONFIG, rcall>>
    /\ UNCHANGED nonOrchVars

\* run_and_capture(cargo test)? has returned: an error or a non-zero exit
\* code fails the attempt.
OrchVerifyReturn ==
    /\ orch.pc = "await_verify"
    /\ exec.pc = "done"
    /\ IF exec.result = "Ok" /\ exec.exit_code = 0
       THEN \E ok \in BOOLEAN : orch' = AttemptVerified(orch, ok)
       ELSE orch' = AttemptFailed(orch)
    /\ exec' = ExecIdle
    /\ UNCHANGED <<tree, manifest, UNSAFE_MODE, CONFIG, rcall>>
    /\ UNCHANGED nonOrchVars

-----------------------------------------------------------------------------
(* planner.rs: the task queue and execute_due_tasks                        *)

\* The longest queue and the latest instant of the model.
MaxQueue == 3
MaxClock == 1

\* The delays handed to schedule_self_improvement.
Delays == 0..2

ActCargoBuild ==
    [program |-> "cargo", args |-> <<ArgBuild>>, log_hint |-> "build",
     retries |-> 2]

\* The plan generate_self_improvement falls back to.
SelfImprovementPlan == [NoPlan EXCEPT !.notes = "unparsed_feedback"]

\* The plans handed to add_healing_task.
HealingPlans ==
    {[read |-> <<>>, edit |-> <<PathA>>, actions |-> <<ActCargoBuild>>,
      notes |-> "heal"],
     [read |-> <<PathA>>, edit |-> <<PathA, <<"Cargo.toml">>>>,
      actions |-> <<ActCargoBuild, ActCargoBuild>>, notes |-> "heal"],
     [read |-> <<>>, edit |-> <<PathOutside>>, actions |-> <<ActCargoBuild>>,
      notes |-> "heal"]}

\* safety_check_plan(root, plan): every read and edit path canonicalizes
\* (so it exists) to a place under the canonical root.
safety_check_plan(t, plan) ==
    \A i \in 1..Len(plan.read \o plan.edit) :
        LET full == Join(Root, (plan.read \o plan.edit)[i]) IN
        Exists(t, full) /\ StartsWith(Canon(full), Root)

\* add_healing_task(plan): the safety check, then a task due at once.
AddHealingTask ==
    /\ sched.pc = "idle" /\ orch.pc = "idle"
    /\ Len(TASK_QUEUE) < MaxQueue
    /\ \E plan \in HealingPlans :
          TASK_QUEUE' = IF safety_check_plan(tree, plan)
                        THEN Append(TASK_QUEUE, [execute_at |-> clock, plan |-> plan])
                        ELSE TASK_QUEUE
    /\ UNCHANGED <<tree, clock, sched>>
    /\ UNCHANGED nonSchedVars

\* schedule_self_improvement(root, feedback, delay): file_inventory can fail,
\* otherwise the fallback plan is queued for now + delay.
ScheduleSelfImprovement ==
    /\ sched.pc = "idle" /\ orch.pc = "idle"
    /\ Len(TASK_QUEUE) < MaxQueue
    /\ \E delay \in Delays, ok \in BOOLEAN :
          TASK_QUEUE' = IF ok
                        THEN Append(TASK_QUEUE, [execute_at |-> clock + delay,
                                                 plan |-> SelfImprovementPlan])
                        ELSE TASK_QUEUE
    /\ UNCHANGED <<tree, clock, sched>>
    /\ UNCHANGED nonSchedVars

\* Time passes.
Tick ==
    /\ orch.pc = "idle"
    /\ clock < MaxClock
    /\ clock' = clock + 1
    /\ UNCHANGED <<tree, TASK_QUEUE, sched>>
    /\ UNCHANGED nonSchedVars

RemoveAt(q, i) == SubSeq(q, 1, i - 1) \o SubSeq(q, i + 1, Len(q))

\* The drain with an index that moves on after a removal as well.
RECURSIVE DrainDueSkipping(_, _, _, _)
DrainDueSkipping(queue, i, due, now) ==
    IF i > Len(queue) THEN [queue |-> queue, due |-> due]
    ELSE IF queue[i].execute_at <= now
    THEN DrainDueSkipping(RemoveAt(queue, i), i + 1, Append(due, queue[i]), now)
    ELSE DrainDueSkipping(queue, i + 1, due, now)

\* while i < queue.len() { if queue[i].execute_at <= now
\*     { due.push(queue.remove(i)) } else { i += 1 } }
RECURSIVE DrainDue(_, _, _, _)
DrainDue(queue, i, due, now) ==
    IF i > Len(queue) THEN [queue |-> queue, due |-> due]
    ELSE IF queue[i].execute_at <= now
    THEN DrainDue(RemoveAt(queue, i), i, Append(due, queue[i]), now)
    ELSE DrainDue(queue, i + 1, due, now)

\* The step of the per-task sequence that follows the edits and the actions
\* done so far.
SchedPhase(plan, ei, ai) ==
    IF ei <= Len(plan.edit) THEN "edits"
    ELSE IF ai <= Len(plan.actions) THEN "actions"
    ELSE "commit"

\* execute_due_tasks, first block: now is sampled and the due tasks leave
\* the queue. The call remembers the instant and the queue it found.
SchedStart ==
    /\ sched.pc = "idle" /\ orch.pc = "idle"
    /\ LET d == DrainDue(TASK_QUEUE, 1, <<>>, clock)
           s == [SchedIdle EXCEPT !.now = clock, !.before = TASK_QUEUE]
       IN
       /\ TASK_QUEUE' = d.queue
       /\ sched' = IF d.due = <<>>
                   THEN [s EXCEPT !.pc = "done", !.result = "Ok"]
                   ELSE [s EXCEPT !.pc = "check", !.due = d.due]
    /\ UNCHANGED <<tree, clock>>
    /\ UNCHANGED nonSchedVars

\* current_dir()? and safety_check_plan(&root, &task.plan)? for the next task.
SchedSafetyCheck ==
    /\ sched.pc = "check"
    /\ LET plan == sched.due[1].plan IN
       \E ok \in BOOLEAN :
          sched' = IF ok /\ safety_check_plan(tree, plan)
                   THEN [sched EXCEPT !.pc = SchedPhase(plan, 1, 1),
                                      !.plan = plan, !.ei = 1, !.ai = 1,
                                      !.attempt = 0, !.log = <<>>]
                   ELSE [sched EXCEPT !.pc = "done", !.result = "Err",
                                      !.plan = plan, !.log = <<>>]
    /\ UNCHANGED <<tree, clock, TASK_QUEUE>>
    /\ UNCHANGED nonSchedVars

\* apply_plan_edits, one edit: read the file, prepend the comment, fs::write;
\* a failed write can leave the file truncated.
SchedApplyEdit ==
    /\ sched.pc = "edits"
    /\ LET plan == sched.due[1].plan
           abs == Canon(Join(Root, plan.edit[sched.ei]))
       IN \/ /\ sched' = [sched EXCEPT !.pc = "done", !.result = "Err",
                                       !.log = Append(@, Ev("read", abs))]
             /\ UNCHANGED tree
          \/ /\ sched' = [sched EXCEPT !.pc = "done", !.result = "Err",
                                       !.log = @ \o <<Ev("read", abs), Ev("write", abs)>>]
             /\ tree' = [tree EXCEPT ![abs] = "partial"]
          \/ /\ sched' = [sched EXCEPT
                             !.pc = SchedPhase(plan, sched.ei + 1, 1),
                             !.ei = @ + 1,
                             !.log = @ \o <<Ev("read", abs), Ev("write", abs)>>]
             /\ tree' = [tree EXCEPT ![abs] = "edited"]
    /\ UNCHANGED <<clock, TASK_QUEUE>>
    /\ UNCHANGED nonSchedVars

\* run_plan_actions, one run of one action: Command::new(program).status();
\* success goes to the next action, a failure is retried until attempt
\* reaches retries.
SchedRunAction ==
    /\ sched.pc = "actions"
    /\ LET plan == sched.due[1].plan
           a == plan.actions[sched.ai]
           attempt == sched.attempt + 1
       IN \E started \in (IF a.program \in manifest THEN BOOLEAN ELSE {FALSE}),
             success \in BOOLEAN :
             LET s1 == [sched EXCEPT
                           !.attempt = attempt,
                           !.log = IF started THEN Append(@, Ev("spawn", a.program))
                                   ELSE @]
             IN sched' = IF started /\ success
                         THEN [s1 EXCEPT !.ai = @ + 1, !.attempt = 0,
                                         !.pc = SchedPhase(plan, sched.ei, sched.ai + 1)]
                         ELSE IF attempt >= a.retries
                         THEN [s1 EXCEPT !.pc = "done", !.result = "Err"]
                         ELSE s1
    /\ UNCHANGED <<tree, clock, TASK_QUEUE>>
    /\ UNCHANGED nonSchedVars

\* commit_changes(&root, &commit_msg)?, then the next due task or the
\* "completed" timeline entry and Ok(()).
SchedCommit ==
    /\ sched.pc = "commit"
    /\ \E ok \in BOOLEAN :
          sched' = IF ~ok THEN [sched EXCEPT !.pc = "done", !.result = "Err"]
                   ELSE IF Len(sched.due) > 1
                   THEN [sched EXCEPT !.pc = "check", !.due = Tail(@),
                                      !.done = @ + 1]
                   ELSE [sched EXCEPT !.pc = "done", !.result = "Ok",
                                      !.due = Tail(@), !.done = @ + 1]
    /\ UNCHANGED <<tree, clock, TASK_QUEUE>>
    /\ UNCHANGED nonSchedVars

\* The project before a turn: a.rs and the file beside the project exist,
\* and Cargo.toml, package.json or neither.
InitialTrees ==
    {t \in [OrchFiles -> {"absent", "orig"}] :
        /\ t[FileARs] = "orig" /\ t[FileOutside] = "orig"
        /\ t[FileCargoToml] = "absent" \/ t[FilePackageJson] = "absent"}

InitOrch ==
    /\ GLOBAL_DRY_RUN = FALSE
    /\ GLOBAL_GUARD = FALSE
    /\ GLOBAL_TIMELINE = <<>>
    /\ TASK_QUEUE = <<>>
    /\ envDryRun = FALSE
    /\ runner = [max_retries |-> 0]
    /\ heal = HealIdle
    /\ fixer = FixerIdle
    /\ UNSAFE_MODE \in BOOLEAN
    /\ CONFIG = [ask_before_destructive |-> TRUE]
    /\ exec = ExecIdle
    /\ rcall = RcallIdle
    /\ disk = DiskIdle
    /\ aw = AwIdle
    /\ tree \in InitialTrees
    /\ manifest \in {{"cargo"}, {"cargo", "npm"}}
    /\ orch = OrchIdle
    /\ clock = 0
    /\ sched = SchedIdle
    /\ TIMELINE = <<>>
    /\ rec = RecIdle
    /\ goal = GoalIdle
    /\ memory = MemoryIdle
    /\ session = SessionIdle
    /\ stream = StreamIdle
    /\ summary = SummaryIdle
    /\ planned = PlannedIdle
    /\ executor = ExecutorIdle
    /\ crun = CrunIdle
    /\ autorun = AutorunIdle
    /\ budget = BudgetIdle
    /\ cw = CwIdle

NextOrch ==
    \/ OrchStart
    \/ OrchPlan
    \/ OrchSummary
    \/ OrchProposeEdit
    \/ OrchApplyEdit
    \/ OrchPersistProposals
    \/ OrchRunAction
    \/ OrchActionReturn
    \/ OrchFinishActions
    \/ OrchVerify
    \/ OrchVerifyReturn
    \/ ExecGuard
    \/ ExecOpenLogs
    \/ ExecSpawn
    \/ ExecWait
    \/ AddHealingTask
    \/ ScheduleSelfImprovement
    \/ Tick
    \/ SchedStart
    \/ SchedSafetyCheck
    \/ SchedApplyEdit
    \/ SchedRunAction
    \/ SchedCommit

SpecOrch == InitOrch /\ [][NextOrch]_vars

-----------------------------------------------------------------------------
(* planner.rs: the branch of plan_changes for a plan returned by the LM.   *)
(* The router client that makes the call is left out of planner.rs (the    *)
(* call is a stub); SpecTurn is SpecOrch for a turn alone, with a client   *)
(* that can return a plan.                                                 *)

ActRmRf ==
    [program |-> "rm", args |-> <<ArgRf, ArgTarget>>, log_hint |-> "run",
     retries |-> DEFAULT_RETRIES]

\* The plans the LM returns: an action `rm -rf target`, alone, after an
\* edit, and after a build.
LlmPlans ==
    {[read |-> <<>>, edit |-> <<>>, actions |-> <<ActRmRf>>, notes |-> ""],
     [read |-> <<>>, edit |-> <<PathA>>, actions |-> <<ActRmRf>>, notes |-> ""],
     [read |-> <<PathMissing>>, edit |-> <<>>,
      actions |-> <<ActCargoBuild, ActRmRf>>, notes |-> ""]}

\* if let Ok(mut plan) = serde_json::from_value::<Plan>(v): the budget note
\* (after which notes is never empty, so the plan is taken), and
\* plan.read.retain(exists), plan.edit.retain(exists).
plan_from_llm(t, v) ==
    [read |-> SelectSeq(v.read, LAMBDA x : Exists(t, Join(Root, x))),
     edit |-> SelectSeq(v.edit, LAMBDA x : Exists(t, Join(Root, x))),
     actions |-> v.actions,
     notes |-> IF v.notes = "" THEN "budget" ELSE "llm+budget"]

\* orchestrate, step 1, with a plan from the LM.
OrchPlanLlm ==
    /\ orch.pc = "plan"
    /\ \E v \in LlmPlans : orch' = PlanAccepted(orch, plan_from_llm(tree, v))
    /\ UNCHANGED <<tree, manifest>>
    /\ UNCHANGED <<nonOrchVars, guardVars>>

InitTurn ==
    /\ GLOBAL_DRY_RUN = FALSE
    /\ GLOBAL_GUARD = FALSE
    /\ GLOBAL_TIMELINE = <<>>
    /\ TASK_QUEUE = <<>>
    /\ envDryRun = FALSE
    /\ runner = [max_retries |-> 0]
    /\ heal = HealIdle
    /\ fixer = FixerIdle
    /\ UNSAFE_MODE \in BOOLEAN
    /\ CONFIG = [ask_before_destructive |-> TRUE]
    /\ exec = ExecIdle
    /\ rcall = RcallIdle
    /\ disk = DiskIdle
    /\ aw = AwIdle
    /\ tree \in InitialTrees
    /\ manifest = {"cargo", "npm", "rm"}
    /\ orch = OrchIdle
    /\ clock = 0
    /\ sched = SchedIdle
    /\ TIMELINE = <<>>
    /\ rec = RecIdle
    /\ goal = GoalIdle
    /\ memory = MemoryIdle
    /\ session = SessionIdle
    /\ stream = StreamIdle
    /\ summary = SummaryIdle
    /\ planned = PlannedIdle
    /\ executor = ExecutorIdle
    /\ crun = CrunIdle
    /\ autorun = AutorunIdle
    /\ budget = BudgetIdle
    /\ cw = CwIdle

NextTurn ==
    \/ OrchStart
    \/ OrchPlan
    \/ OrchPlanLlm
    \/ OrchSummary
    \/ OrchProposeEdit
    \/ OrchApplyEdit
    \/ OrchPersistProposals
    \/ OrchRunAction
    \/ OrchActionReturn
    \/ OrchFinishActions
    \/ OrchVerify
    \/ OrchVerifyReturn
    \/ ExecGuard
    \/ ExecOpenLogs
    \/ ExecSpawn
    \/ ExecWait

SpecTurn == InitTurn /\ [][NextTurn]_vars

-----------------------------------------------------------------------------
(* Claims about plan application, checked under SpecOrch.                  *)

\* capabilities.rs can_run(manifest, program): the binary is on PATH.
can_run(m, program) == program \in m

\* C7: every action handed to the executor has a program that can_run
\* accepts, unless unsafe_mode is set.
C7_ActionsRunnable ==
    \A i \in 1..Len(orch.log) :
        orch.log[i].op = "exec" =>
            can_run(manifest, orch.log[i].what) \/ UNSAFE_MODE

\* C8: no file outside the canonical root is read or written while a plan
\* is applied, and every read and edit path of a plan the orchestrator
\* applied to the end canonicalizes to a place under the canonical root.
C8_PathsUnderRoot ==
    /\ \A i \in 1..Len(orch.log) :
          orch.log[i].op \in {"read", "write"} => StartsWith(orch.log[i].what, Root)
    /\ orch.result = "Ok" =>
          \A i \in 1..Len(orch.plan.read \o orch.plan.edit) :
              StartsWith(Canon(Join(Root, (orch.plan.read \o orch.plan.edit)[i])),
                         Root)

\* In the record of one plan application no edit is written or exported
\* after an action was handed to the executor or spawned, and once that
\* happened every edit of the plan has been written or exported.
EditsBeforeActions(log, plan) ==
    LET acts == {i \in 1..Len(log) : log[i].op \in {"exec", "spawn"}}
        edits == {i \in 1..Len(log) : log[i].op \in {"write", "export"}}
    IN /\ \A i \in acts, j \in edits : j < i
       /\ acts # {} => Cardinality(edits) = Len(plan.edit)

C12_FailureDoesNotAbort ==
    (orch.err.what = "edit" /\ orch.err.left > 0) => orch.failed = OuterAttempts

\* C13: the Executor timeline entry of an action whose process exited with
\* a non-zero code does not have the verdict "success".
C13_NonZeroExitNotSuccess ==
    \A i \in 1..Len(orch.log) :
        (/\ orch.log[i].op = "timeline"
         /\ orch.log[i].what.agent = "Executor"
         /\ orch.log[i].what.ran
         /\ orch.log[i].what.exit_code # 0) => orch.log[i].what.verdict # "success"

\* The Executor entries that one call of orchestrate recorded for the k-th
\* action of its plan, one for each time the action was run.
RunsOf(log, k) ==
    {i \in 1..Len(log) :
        /\ log[i].op = "timeline"
        /\ log[i].what.agent = "Executor"
        /\ log[i].what.item = k}

\* C14: when orchestrate has gone past an action, the action either had a
\* run that succeeded (the child ran and exited with 0) or was run as many
\* times as its `retries` says.
C14_ActionRetries ==
    (orch.pc \in {"actions", "verify", "await_verify"} /\ ~orch.dry_run) =>
        \A k \in 1..Len(orch.plan.actions) :
            k < orch.ai =>
                \/ \E i \in RunsOf(orch.log, k) :
                      orch.log[i].what.ran /\ orch.log[i].what.exit_code = 0
                \/ Cardinality(RunsOf(orch.log, k)) = orch.plan.actions[k].retries

\* C15: in a turn with dry_run set, in every attempt and for every plan, no
\* run_and_capture is called and no child is spawned (for an action or for
\* the verification), no edit target is written and no patch is exported.
C15_DryRunRecordsIntentOnly ==
    (orch.dry_run /\ orch.pc # "idle") =>
        /\ exec = ExecIdle
        /\ \A i \in 1..Len(orch.log) :
              orch.log[i].op \notin {"exec", "spawn", "write", "export"}
        /\ orch.patch_counter = 1
        /\ \A f \in DOMAIN tree : tree[f] \in {"absent", "orig"}
        /\ orch.cmd_diag = {}

\* C15 witness: a dry-run turn whose second attempt went through a plan
\* with an edit and an action and through the verification of a Rust
\* project.
C15_Witness ==
    /\ orch.dry_run
    /\ orch.attempt = 2
    /\ orch.pc = "done" /\ orch.result = "Ok"
    /\ orch.plan.edit # <<>> /\ orch.plan.actions # <<>>
    /\ Exists(tree, Join(Root, <<"Cargo.toml">>))

\* C16: the numbers of the patch files written into patch_dir during a
\* session, in the order they were written, are strictly increasing, so
\* that no NNN.patch is written twice.
C16_PatchNumbersIncrease ==
    \A i, j \in 1..Len(orch.patch_dir) :
        i < j => orch.patch_dir[i] < orch.patch_dir[j]

-----------------------------------------------------------------------------
(* main.rs: add_timeline_entry and its callers (runner.rs record_timeline  *)
(* and its callers follow the same pattern).                               *)

\* The longest timeline of the model.
MaxTimeline == 3

\* let end = SystemTime::now(): a recorder reads the clock when its step
\* completes, before it calls add_timeline_entry.
RecTakeEnd(r) ==
    /\ rec[r].pc = "idle"
    /\ Len(TIMELINE) + Cardinality({q \in Recorders : rec[q].pc = "stamped"})
          < MaxTimeline
    /\ rec' = [rec EXCEPT ![r] = [pc |-> "stamped", end |-> clock]]
    /\ UNCHANGED <<TIMELINE, clock>>
    /\ UNCHANGED nonTimelineVars

\* add_timeline_entry(start, end, ..): tl.lock(), vec.push(entry) with the
\* end that was handed in, and the guard is dropped.
RecAppend(r) ==
    /\ rec[r].pc = "stamped"
    /\ TIMELINE' = Append(TIMELINE, [end |-> rec[r].end, agent |-> r])
    /\ rec' = [rec EXCEPT ![r] = [pc |-> "idle", end |-> 0]]
    /\ UNCHANGED clock
    /\ UNCHANGED nonTimelineVars

\* Time passes.
TimePasses ==
    /\ clock < MaxClock
    /\ clock' = clock + 1
    /\ UNCHANGED <<TIMELINE, rec>>
    /\ UNCHANGED nonTimelineVars

InitTimeline ==
    /\ GLOBAL_DRY_RUN = FALSE
    /\ GLOBAL_GUARD = FALSE
    /\ GLOBAL_TIMELINE = <<>>
    /\ TASK_QUEUE = <<>>
    /\ envDryRun = FALSE
    /\ runner = [max_retries |-> 0]
    /\ heal = HealIdle
    /\ fixer = FixerIdle
    /\ UNSAFE_MODE = FALSE
    /\ CONFIG = [ask_before_destructive |-> TRUE]
    /\ exec = ExecIdle
    /\ rcall = RcallIdle
    /\ disk = DiskIdle
    /\ aw = AwIdle
    /\ tree = TreeIdle
    /\ manifest = {}
    /\ orch = OrchIdle
    /\ clock = 0
    /\ sched = SchedIdle
    /\ TIMELINE = <<>>
    /\ rec = RecIdle
    /\ goal = GoalIdle
    /\ memory = MemoryIdle
    /\ session = SessionIdle
    /\ stream = StreamIdle
    /\ summary = SummaryIdle
    /\ planned = PlannedIdle
    /\ executor = ExecutorIdle
    /\ crun = CrunIdle
    /\ autorun = AutorunIdle
    /\ budget = BudgetIdle
    /\ cw = CwIdle

NextTimeline ==
    \/ \E r \in Recorders : RecTakeEnd(r)
    \/ \E r \in Recorders : RecAppend(r)
    \/ TimePasses

SpecTimeline == InitTimeline /\ [][NextTimeline]_vars

\* C18: the timeline is ordered by completion time: an entry recorded
\* before another has an end that is not later.
C18_TimelineMonotonic ==
    \A i, j \in 1..Len(TIMELINE) :
        i < j => TIMELINE[i].end <= TIMELINE[j].end

-----------------------------------------------------------------------------
(* main.rs: the `goal` subcommand, planner::plan_goal and generate_report  *)

\* The words after `goal` on the command line.
GoalArgs == {<<>>, <<"add", "CI">>}

\* fs::write(path, ..)?, File::create + write_all: the file has the new
\* content, or the write failed and left it as it was or cut short.
FailedWrite(files, f) == {files, [files EXCEPT ![f] = "partial"]}

\* The subcommand is entered: an empty description bails with the usage.
GoalStart ==
    /\ goal.pc = "start"
    /\ \E sub_args \in GoalArgs :
          goal' = IF sub_args = <<>>
                  THEN [goal EXCEPT !.pc = "done", !.result = "Err",
                                    !.sub_args = sub_args]
                  ELSE [goal EXCEPT !.pc = "plan_goal", !.sub_args = sub_args]
    /\ UNCHANGED TIMELINE
    /\ UNCHANGED nonGoalVars

\* planner::plan_goal(&root, &goal_desc)?: persist_taskgraph writes
\* plan.json and plan.md, then record_timeline pushes a Planner entry on
\* planner.rs's own TIMELINE.
GoalPlanGoal ==
    /\ goal.pc = "plan_goal"
    /\ \/ \E fs \in FailedWrite(goal.files, "plan.json") :
             goal' = [goal EXCEPT !.pc = "done", !.result = "Err", !.files = fs]
       \/ \E fs \in FailedWrite([goal.files EXCEPT !["plan.json"] = "graph"],
                                 "plan.md") :
             goal' = [goal EXCEPT !.pc = "done", !.result = "Err", !.files = fs]
       \/ goal' = [goal EXCEPT
                      !.pc = "write_json",
                      !.files = [@ EXCEPT !["plan.json"] = "graph",
                                          !["plan.md"] = "graph"],
                      !.planner_timeline = Append(@, "Planner")]
    /\ UNCHANGED TIMELINE
    /\ UNCHANGED nonGoalVars

\* The file main writes in each of its three steps, and the step after.
GoalWrites ==
    [write_json |-> [file |-> "plan.json", next |-> "write_md"],
     write_md |-> [file |-> "plan.md", next |-> "write_goal"],
     write_goal |-> [file |-> "goal.txt", next |-> "report"]]

\* fs::write(&json_path, ..)?, fs::write(&md_path, ..)? and
\* fs::write(&goal_path, ..)?: main writes its placeholder plan and the
\* goal description.
GoalPersist ==
    /\ goal.pc \in DOMAIN GoalWrites
    /\ LET w == GoalWrites[goal.pc] IN
       \/ \E fs \in FailedWrite(goal.files, w.file) :
             goal' = [goal EXCEPT !.pc = "done", !.result = "Err", !.files = fs]
       \/ goal' = [goal EXCEPT !.pc = w.next,
                                !.files = [@ EXCEPT ![w.file] = "written"]]
    /\ UNCHANGED TIMELINE
    /\ UNCHANGED nonGoalVars

\* The rows of the Timeline table: one for each entry of main.rs's TIMELINE;
\* the entries of planner.rs's TIMELINE are not read.
ReportRows(timeline, planner_timeline) ==
    [i \in 1..Len(timeline) |-> timeline[i].agent]

\* generate_report(&root, &goal_desc, &summary, &risks)?; return Ok(()).
GoalReport ==
    /\ goal.pc = "report"
    /\ \/ \E fs \in FailedWrite(goal.files, "report.md") :
             goal' = [goal EXCEPT !.pc = "done", !.result = "Err", !.files = fs]
       \/ goal' = [goal EXCEPT
                      !.pc = "done", !.result = "Ok",
                      !.files = [@ EXCEPT !["report.md"] = "written"],
                      !.report_rows = ReportRows(TIMELINE, goal.planner_timeline)]
    /\ UNCHANGED TIMELINE
    /\ UNCHANGED nonGoalVars

InitGoal ==
    /\ GLOBAL_DRY_RUN = FALSE
    /\ GLOBAL_GUARD = FALSE
    /\ GLOBAL_TIMELINE = <<>>
    /\ TASK_QUEUE = <<>>
    /\ envDryRun = FALSE
    /\ runner = [max_retries |-> 0]
    /\ heal = HealIdle
    /\ fixer = FixerIdle
    /\ UNSAFE_MODE = FALSE
    /\ CONFIG = [ask_before_destructive |-> TRUE]
    /\ exec = ExecIdle
    /\ rcall = RcallIdle
    /\ disk = DiskIdle
    /\ aw = AwIdle
    /\ tree = TreeIdle
    /\ manifest = {}
    /\ orch = OrchIdle
    /\ clock = 0
    /\ sched = SchedIdle
    /\ TIMELINE = <<>>
    /\ rec = RecIdle
    /\ goal \in [pc : {"start"}, sub_args : {<<>>},
                 files : [GoalFiles -> {"absent", "old"}],
                 planner_timeline : {<<>>}, report_rows : {<<>>},
                 result : {"none"}]
    /\ memory = MemoryIdle
    /\ session = SessionIdle
    /\ stream = StreamIdle
    /\ summary = SummaryIdle
    /\ planned = PlannedIdle
    /\ executor = ExecutorIdle
    /\ crun = CrunIdle
    /\ autorun = AutorunIdle
    /\ budget = BudgetIdle
    /\ cw = CwIdle

NextGoal ==
    \/ GoalStart
    \/ GoalPlanGoal
    \/ GoalPersist
    \/ GoalReport

SpecGoal == InitGoal /\ [][NextGoal]_vars

\* C19: when the goal subcommand has completed, .agent/plan.json,
\* .agent/plan.md and .agent/goal.txt hold what it wrote and the Timeline
\* table of report.md has a row whose agent is Planner.
C19_GoalPersistence ==
    (goal.pc = "done" /\ goal.result = "Ok") =>
        /\ \A f \in {"plan.json", "plan.md", "goal.txt"} :
              goal.files[f] = "written"
        /\ goal.files["report.md"] = "written"
        /\ \E i \in 1..Len(goal.report_rows) : goal.report_rows[i] = "Planner"

-----------------------------------------------------------------------------
(* A claim about a turn whose plan comes from the LM, checked under        *)
(* SpecTurn.                                                               *)

\* C17: under default settings (no --unsafe), once a turn has gone past an
\* action `rm -rf target` of its plan, the executor has refused it (no
\* child was spawned and the Executor entry is a failure),
\* agent_diagnostics.log has a "Command error" line with `denied`, and the
\* turn has appended nothing to agent.log.
C17_GuardrailBlock ==
    \A k \in 1..Len(orch.plan.actions) :
        (/\ ~UNSAFE_MODE /\ ~orch.dry_run
         /\ orch.plan.actions[k] = ActRmRf
         /\ orch.pc = "actions" /\ k < orch.ai) =>
            /\ \A i \in RunsOf(orch.log, k) :
                  ~orch.log[i].what.ran /\ orch.log[i].what.verdict = "failure"
            /\ "denied" \in orch.cmd_diag
            /\ orch.agent_log = {}

\* The tasks of a queue that are due at an instant, and those that are not,
\* each in the order of the queue.
DueAt(queue, now) == SelectSeq(queue, LAMBDA t : t.execute_at <= now)

NotDueAt(queue, now) == SelectSeq(queue, LAMBDA t : t.execute_at > now)

\* C20: execute_due_tasks pops exactly the tasks whose execute_at is at most
\* the sampled now: once the call has drained the queue, no task that was
\* due at that instant is left in it, every task that was not yet due is
\* still queued, in its original relative order, and the popped tasks are
\* the due ones.
C20_DrainsExactlyDue ==
    sched.pc # "idle" =>
        /\ TASK_QUEUE = NotDueAt(sched.before, sched.now)
        /\ \A i \in 1..Len(TASK_QUEUE) : TASK_QUEUE[i].execute_at > sched.now
        /\ sched.done = 0 /\ sched.pc = "check" =>
              sched.due = DueAt(sched.before, sched.now)

\* A call that found a due task ahead of two tasks not yet due, of different
\* instants, has returned.
C20_Witness ==
    /\ sched.pc = "done"
    /\ Len(sched.before) = 3
    /\ sched.before[1].execute_at <= sched.now
    /\ sched.before[2].execute_at > sched.before[3].execute_at
    /\ sched.before[3].execute_at > sched.now
    /\ TASK_QUEUE = <<sched.before[2], sched.before[3]>>

\* C21: the due tasks of a call are executed in order of non-decreasing
\* execute_at, and due tasks of the same instant in the order in which they
\* were scheduled. The tasks are executed in the order of sched.due.
C21_PriorityFifo ==
    sched.pc # "idle" =>
        /\ \A i, j \in 1..Len(sched.due) :
              i < j => sched.due[i].execute_at <= sched.due[j].execute_at
        /\ (sched.done = 0 /\ sched.pc = "check") =>
              \A t \in 0..sched.now :
                 SelectSeq(sched.due, LAMBDA x : x.execute_at = t)
                    = SelectSeq(sched.before, LAMBDA x : x.execute_at = t)

-----------------------------------------------------------------------------
(* planner.rs: the fact store, load_memory, save_memory and record_fact    *)

\* The (fact, source) pairs handed to record_fact.
Facts ==
    {[fact |-> "repo uses cargo", source |-> "Cargo.toml"],
     [fact |-> "repo uses cargo", source |-> "package.json"],
     [fact |-> "repo uses npm", source |-> "package.json"]}

\* A check that never finds the pair.
KnownNever(facts, f) == FALSE

\* facts.iter().any(|f| f.fact == fact && f.source == source)
Known(facts, f) ==
    \E i \in 1..Len(facts) :
        facts[i].fact = f.fact /\ facts[i].source = f.source

\* memory.json is absent, holds a list of facts ("stored"), or is "corrupt"
\* (created and not yet, or never, written in full).
FileCorrupt == [st |-> "corrupt", facts |-> <<>>]

Stored(facts) == [st |-> "stored", facts |-> facts]

\* The lists record_fact leaves in memory.json.
StoredLists ==
    {<<>>} \cup {<<f>> : f \in Facts}
           \cup {p \in Facts \X Facts : p[1] # p[2]}

\* record_fact(root, fact, source) is entered by a thread, whatever the
\* other thread is doing. The call remembers the file it found and whether
\* the call entered before it recorded the same pair and returned Ok.
FactCall(c) ==
    /\ memory.call[c].pc \in {"idle", "done"}
    /\ \E f \in Facts :
          memory' = [memory EXCEPT
                        !.last = [by |-> c, fact |-> f, result |-> "none"],
                        !.call[c] = [CallIdle EXCEPT
                                        !.pc = "load", !.fact = f,
                                        !.file0 = memory.file,
                                        !.repeat = /\ memory.last.result = "Ok"
                                                   /\ memory.last.fact = f]]
    /\ UNCHANGED nonMemoryVars

\* record_fact is entered while no other call is under way.
FactCallAlone(c) ==
    /\ \A d \in Callers : memory.call[d].pc \in {"idle", "done"}
    /\ FactCall(c)

\* The call returns.
Returned(m, c, result) ==
    [m EXCEPT !.call[c].pc = "done", !.call[c].result = result,
              !.last = IF m.last.by = c THEN [@ EXCEPT !.result = result] ELSE @]

\* let mut facts = load_memory(root)?: empty when the file does not exist,
\* an error when it cannot be read or parsed; then the duplicate test, which
\* returns Ok(()) at once for a known pair.
FactLoad(c) ==
    /\ memory.call[c].pc = "load"
    /\ \E ok \in BOOLEAN :
          LET facts == memory.file.facts IN
          memory' = IF ~ok \/ memory.file.st = "corrupt"
                    THEN Returned(memory, c, "Err")
                    ELSE IF Known(facts, memory.call[c].fact)
                    THEN Returned(memory, c, "Ok")
                    ELSE [memory EXCEPT
                             !.call[c].pc = "create",
                             !.call[c].facts = Append(facts, memory.call[c].fact)]
    /\ UNCHANGED nonMemoryVars

\* save_memory: File::create(&path)? truncates the file.
FactCreate(c) ==
    /\ memory.call[c].pc = "create"
    /\ \E ok \in BOOLEAN :
          memory' = IF ok
                    THEN [memory EXCEPT !.call[c].pc = "write",
                                        !.file = FileCorrupt]
                    ELSE Returned(memory, c, "Err")
    /\ UNCHANGED nonMemoryVars

\* save_memory: file.write_all(json.as_bytes())?, and record_fact returns.
FactWrite(c) ==
    /\ memory.call[c].pc = "write"
    /\ \E ok \in BOOLEAN :
          memory' = IF ok
                    THEN Returned([memory EXCEPT
                                      !.file = Stored(memory.call[c].facts)],
                                  c, "Ok")
                    ELSE Returned([memory EXCEPT !.file = FileCorrupt], c, "Err")
    /\ UNCHANGED nonMemoryVars

\* Calls of record_fact one after the other.
InitFacts ==
    /\ GLOBAL_DRY_RUN = FALSE
    /\ GLOBAL_GUARD = FALSE
    /\ GLOBAL_TIMELINE = <<>>
    /\ TASK_QUEUE = <<>>
    /\ envDryRun = FALSE
    /\ runner = [max_retries |-> 0]
    /\ heal = HealIdle
    /\ fixer = FixerIdle
    /\ UNSAFE_MODE = FALSE
    /\ CONFIG = [ask_before_destructive |-> TRUE]
    /\ exec = ExecIdle
    /\ rcall = RcallIdle
    /\ disk = DiskIdle
    /\ aw = AwIdle
    /\ tree = TreeIdle
    /\ manifest = {}
    /\ orch = OrchIdle
    /\ clock = 0
    /\ sched = SchedIdle
    /\ TIMELINE = <<>>
    /\ rec = RecIdle
    /\ goal = GoalIdle
    /\ memory \in [file : {MemoryIdle.file, FileCorrupt}
                              \cup {Stored(l) : l \in StoredLists},
                   last : {MemoryIdle.last},
                   call : {MemoryIdle.call}]
    /\ session = SessionIdle
    /\ stream = StreamIdle
    /\ summary = SummaryIdle
    /\ planned = PlannedIdle
    /\ executor = ExecutorIdle
    /\ crun = CrunIdle
    /\ autorun = AutorunIdle
    /\ budget = BudgetIdle
    /\ cw = CwIdle

NextFacts ==
    \/ \E c \in Callers : FactCallAlone(c)
    \/ \E c \in Callers : FactLoad(c)
    \/ \E c \in Callers : FactCreate(c)
    \/ \E c \in Callers : FactWrite(c)

SpecFacts == InitFacts /\ [][NextFacts]_vars

\* Calls of record_fact from two threads at once.
NextFactsConcurrent ==
    \/ \E c \in Callers : FactCall(c)
    \/ \E c \in Callers : FactLoad(c)
    \/ \E c \in Callers : FactCreate(c)
    \/ \E c \in Callers : FactWrite(c)

SpecFactsConcurrent == InitFacts /\ [][NextFactsConcurrent]_vars

\* The call of a thread is the one entered last.
Latest(c) == memory.last.by = c

\* C22: the fact store is deduplicated on (fact, source): memory.json never
\* holds two entries with the same pair, a call that returns Ok leaves its
\* pair in the file, and a call of record_fact(f, s) that follows a call of
\* record_fact(f, s) that returned Ok leaves memory.json as it found it.
C22_Deduplicated ==
    /\ \A i, j \in 1..Len(memory.file.facts) :
          (memory.file.facts[i].fact = memory.file.facts[j].fact
           /\ memory.file.facts[i].source = memory.file.facts[j].source)
             => i = j
    /\ \A c \in Callers :
          /\ (Latest(c) /\ memory.call[c].result = "Ok") =>
                /\ memory.file.st = "stored"
                /\ Known(memory.file.facts, memory.call[c].fact)
          /\ (Latest(c) /\ memory.call[c].repeat) =>
                memory.file = memory.call[c].file0

\* The same pair has been recorded twice in a row: the first call wrote it
\* after a pair of the same fact and another source, the second returned Ok.
C22_Witness ==
    \E c, d \in Callers :
        /\ c # d
        /\ Latest(c) /\ memory.call[c].result = "Ok"
        /\ memory.call[c].repeat
        /\ memory.call[d].pc = "done" /\ memory.call[d].result = "Ok"
        /\ memory.call[d].fact = memory.call[c].fact
        /\ Len(memory.call[d].facts) = 2
        /\ memory.call[d].facts[1].fact = memory.call[d].facts[2].fact
        /\ memory.file = Stored(memory.call[d].facts)

\* C23: when two calls of record_fact for distinct facts have both returned
\* Ok, both facts are in memory.json, however the two calls interleave.
C23_NoLostUpdate ==
    \A c, d \in Callers :
        (/\ c # d
         /\ memory.call[c].pc = "done" /\ memory.call[c].result = "Ok"
         /\ memory.call[d].pc = "done" /\ memory.call[d].result = "Ok"
         /\ memory.call[c].fact # memory.call[d].fact) =>
            /\ memory.file.st = "stored"
            /\ Known(memory.file.facts, memory.call[c].fact)
            /\ Known(memory.file.facts, memory.call[d].fact)

-----------------------------------------------------------------------------
(* main.rs: the Ctrl-C handler and autonomous_loop                         *)

\* let interval = Duration::from_secs(30), polled in steps of one second.
IntervalSecs == 30

\* The steps counted after a signal.
MaxLate == 2

\* The phases of one attempt of a turn, in order.
AttemptPhases == <<"plan", "edits", "actions", "verify">>

\* One more step has completed since the signal arrived.
StepDone(s) ==
    IF s.signalled /\ s.late < MaxLate THEN [s EXCEPT !.late = @ + 1] ELSE s

\* Ctrl-C: with the handler registered by the ctrlc crate the closure runs,
\* shutdown.store(true, SeqCst); set_handler of the ctrlc module in main.rs
\* drops the closure, and the flag stays as it is.
CtrlC ==
    /\ session.pc \notin {"idle", "exited"}
    /\ ~session.signalled
    /\ session' = [session EXCEPT
                      !.signalled = TRUE,
                      !.shutdown = IF session.handler = "crate" THEN TRUE ELSE @]
    /\ UNCHANGED nonSessionVars

\* loop { if shutdown.load(SeqCst) { break } ...: the top of a cycle.
LoopTop ==
    /\ session.pc = "top"
    /\ session' = IF session.shutdown
                  THEN [session EXCEPT !.pc = "exited", !.state = "Shutdown"]
                  ELSE [session EXCEPT !.pc = "turn", !.attempt = 1,
                                       !.phase = 1, !.result = "none"]
    /\ UNCHANGED nonSessionVars

\* high_level_orchestrate(&root, &request, ...): one phase of the turn runs
\* to its end. The call has no access to the shutdown flag. A failed phase
\* ends the attempt; the turn ends with the first attempt that succeeds or
\* with the last one.
LoopPhase ==
    /\ session.pc = "turn"
    /\ \E ok \in BOOLEAN :
          LET s == StepDone(session) IN
          session' = IF ok /\ session.phase < Len(AttemptPhases)
                     THEN [s EXCEPT !.phase = @ + 1]
                     ELSE IF ok
                     THEN [s EXCEPT !.pc = "wait", !.result = "Ok",
                                    !.elapsed = 0]
                     ELSE IF session.attempt < OuterAttempts
                     THEN [s EXCEPT !.attempt = @ + 1, !.phase = 1]
                     ELSE [s EXCEPT !.pc = "wait", !.result = "Err",
                                    !.elapsed = 0]
    /\ UNCHANGED nonSessionVars

\* while elapsed < interval { if shutdown.load(SeqCst) { return Ok(()) } ...
LoopWait ==
    /\ session.pc = "wait"
    /\ session' = IF session.elapsed >= IntervalSecs
                  THEN [session EXCEPT !.pc = "top"]
                  ELSE IF session.shutdown
                  THEN [session EXCEPT !.pc = "exited", !.state = "Shutdown"]
                  ELSE [session EXCEPT !.pc = "sleeping"]
    /\ UNCHANGED nonSessionVars

\* sleep(sleep_dur).await; elapsed += sleep_dur: one second at most.
LoopSleep ==
    /\ session.pc = "sleeping"
    /\ session' = [StepDone(session) EXCEPT !.pc = "wait", !.elapsed = @ + 1]
    /\ UNCHANGED nonSessionVars

InitAuto ==
    /\ GLOBAL_DRY_RUN = FALSE
    /\ GLOBAL_GUARD = FALSE
    /\ GLOBAL_TIMELINE = <<>>
    /\ TASK_QUEUE = <<>>
    /\ envDryRun = FALSE
    /\ runner = [max_retries |-> 0]
    /\ heal = HealIdle
    /\ fixer = FixerIdle
    /\ UNSAFE_MODE = FALSE
    /\ CONFIG = [ask_before_destructive |-> TRUE]
    /\ exec = ExecIdle
    /\ rcall = RcallIdle
    /\ disk = DiskIdle
    /\ aw = AwIdle
    /\ tree = TreeIdle
    /\ manifest = {}
    /\ orch = OrchIdle
    /\ clock = 0
    /\ sched = SchedIdle
    /\ TIMELINE = <<>>
    /\ rec = RecIdle
    /\ goal = GoalIdle
    /\ memory = MemoryIdle
    /\ \E h \in {"stub", "crate"} :
          session = [SessionIdle EXCEPT !.pc = "top", !.handler = h]
    /\ stream = StreamIdle
    /\ summary = SummaryIdle
    /\ planned = PlannedIdle
    /\ executor = ExecutorIdle
    /\ crun = CrunIdle
    /\ autorun = AutorunIdle
    /\ budget = BudgetIdle
    /\ cw = CwIdle

NextAuto ==
    \/ CtrlC
    \/ LoopTop
    \/ LoopPhase
    \/ LoopWait
    \/ LoopSleep

SpecAuto == InitAuto /\ [][NextAuto]_vars

\* C24: on Ctrl-C the shutdown flag is set, and the autonomous loop exits in
\* Shutdown state after at most one more step (a sleep of one second or a
\* phase of the turn under way) has run to its end.
C24_PromptShutdown ==
    /\ session.signalled => session.shutdown
    /\ session.late <= 1
    /\ (session.signalled /\ session.pc = "exited") => session.state = "Shutdown"

-----------------------------------------------------------------------------
(* main.rs: the interactive chat loop and detect_intent                    *)

\* The lines read at the prompt, trimmed.
InEmpty ==
    <<>>
InSlashExit ==
    <<"/", "e", "x", "i", "t">>
InExit ==
    <<"e", "x", "i", "t">>
InHelp ==
    <<"/", "h", "e", "l", "p">>
InSet ==
    <<"/", "s", "e", "t", " ", "a", "s", "k", "_", "b", "e", "f", "o", "r",
      "e", "_", "d", "e", "s", "t", "r", "u", "c", "t", "i", "v", "e", " ",
      "f", "a", "l", "s", "e">>
InSetShort ==
    <<"/", "s", "e", "t", " ", "x">>
InReport ==
    <<"/", "r", "e", "p", "o", "r", "t">>
InGoal ==
    <<"G", "o", "a", "l", ":", " ", "a", "d", "d", " ", "c", "i">>
InWant ==
    <<"I", " ", "w", "a", "n", "t", " ", "t", "o", " ", "t", "i", "d", "y",
      " ", "u", "p">>
InChange ==
    <<"r", "e", "n", "a", "m", "e", " ", "x">>
InInfo ==
    <<"w", "h", "a", "t", " ", "i", "s", " ", "t", "h", "i", "s">>
InExitNow ==
    <<"/", "e", "x", "i", "t", " ", "n", "o", "w">>

ReplInputs ==
    {InEmpty, InSlashExit, InExit, InHelp, InSet, InSetShort, InReport,
     InGoal, InWant, InChange, InInfo, InExitNow}

\* char::to_lowercase for the capitals of the inputs.
LowerChar(c) ==
    IF c = "G" THEN "g" ELSE IF c = "I" THEN "i" ELSE c

\* msg.to_lowercase()
to_lowercase(s) == [i \in 1..Len(s) |-> LowerChar(s[i])]

\* The words detect_intent looks for in a change request.
ChangeWords ==
    {<<"r", "e", "n", "a", "m", "e">>,
     <<"c", "h", "a", "n", "g", "e">>,
     <<"a", "d", "d">>,
     <<"r", "e", "m", "o", "v", "e">>,
     <<"d", "e", "l", "e", "t", "e">>,
     <<"m", "o", "d", "i", "f", "y">>,
     <<"r", "e", "f", "a", "c", "t", "o", "r">>}

\* detect_intent(msg)
detect_intent(msg) ==
    LET lower == to_lowercase(msg) IN
    IF \/ StartsWith(lower, <<"g", "o", "a", "l", ":">>)
       \/ Contains(lower, <<"i", " ", "w", "a", "n", "t", " ", "t", "o">>)
       \/ Contains(lower, <<"m", "y", " ", "g", "o", "a", "l", " ", "i", "s">>)
    THEN "Goal"
    ELSE IF \E w \in ChangeWords : Contains(lower, w)
    THEN "SimpleChange"
    ELSE "Info"

\* trimmed.split_whitespace().collect().len()
WordCount(s) ==
    Cardinality({i \in 1..Len(s) :
                    s[i] # " " /\ (i = 1 \/ s[i - 1] = " ")})

\* The value of a three-word /set line.
SetValueOf(s) == IF s = InSet THEN "false" ELSE "x"

\* The second word of the /set lines is the key ask_before_destructive.
SetKeyKnown(s) == s = InSet

\* What the chat loop does with a line before any intent is detected:
\* "continue", "break", "set", "report", or "message" for any other text.
ReplCommand(trimmed) ==
    IF trimmed = <<>> THEN "continue"
    ELSE IF trimmed = InSlashExit \/ trimmed = InExit THEN "break"
    ELSE IF trimmed = InHelp THEN "continue"
    ELSE IF StartsWith(trimmed, <<"/", "s", "e", "t", " ">>) THEN "set"
    ELSE IF trimmed = InReport THEN "report"
    ELSE "message"

\* One pass of the chat loop up to the handler: interact_text()? reads a
\* line, the commands are served (/report with `?` on its reads and on
\* generate_report), any other text goes to the handler of its intent.
ReplRead ==
    /\ session.pc = "awaiting"
    /\ \/ /\ session' = [session EXCEPT !.pc = "stopped",
                                        !.result = "input_closed"]
          /\ UNCHANGED CONFIG
       \/ \E input \in ReplInputs, ok \in BOOLEAN :
             LET kind == ReplCommand(input)
                 s == [session EXCEPT !.input = input, !.handled = 0,
                                      !.intent = "none", !.result = "none"]
             IN
             /\ kind # "report" => ok
             /\ session' =
                   IF kind = "break"
                   THEN [s EXCEPT !.pc = "stopped", !.result = "exit"]
                   ELSE IF kind = "report" /\ ~ok
                   THEN [s EXCEPT !.pc = "stopped", !.result = "report_error"]
                   ELSE IF kind = "message"
                   THEN [s EXCEPT !.pc = "orchestrating",
                                  !.intent = detect_intent(input)]
                   ELSE s
             /\ CONFIG' =
                   IF kind = "set" /\ WordCount(input) = 3 /\ SetKeyKnown(input)
                   THEN [CONFIG EXCEPT !.ask_before_destructive =
                                           ParseBoolOrTrue(SetValueOf(input))]
                   ELSE CONFIG
    /\ UNCHANGED <<UNSAFE_MODE, exec, rcall>>
    /\ UNCHANGED <<healVars, fsVars, orchVars, schedVars, timelineVars, goal,
                   memory, stream, summary, planned, executor, crun, autorun, budget, cw>>

\* The handler of the intent returns: handle_goal_message and
\* handle_simple_change_message return what high_level_orchestrate returns,
\* handle_info_message returns Ok(()); an Err is reported and the loop goes
\* on.
ReplTurn ==
    /\ session.pc = "orchestrating"
    /\ \E ok \in (IF session.intent = "Info" THEN {TRUE} ELSE BOOLEAN) :
          session' = [session EXCEPT
                         !.pc = "awaiting", !.handled = @ + 1,
                         !.result = IF ok THEN "Ok" ELSE "Err"]
    /\ UNCHANGED nonSessionVars

InitRepl ==
    /\ GLOBAL_DRY_RUN = FALSE
    /\ GLOBAL_GUARD = FALSE
    /\ GLOBAL_TIMELINE = <<>>
    /\ TASK_QUEUE = <<>>
    /\ envDryRun = FALSE
    /\ runner = [max_retries |-> 0]
    /\ heal = HealIdle
    /\ fixer = FixerIdle
    /\ UNSAFE_MODE = FALSE
    /\ CONFIG = [ask_before_destructive |-> TRUE]
    /\ exec = ExecIdle
    /\ rcall = RcallIdle
    /\ disk = DiskIdle
    /\ aw = AwIdle
    /\ tree = TreeIdle
    /\ manifest = {}
    /\ orch = OrchIdle
    /\ clock = 0
    /\ sched = SchedIdle
    /\ TIMELINE = <<>>
    /\ rec = RecIdle
    /\ goal = GoalIdle
    /\ memory = MemoryIdle
    /\ \E h \in {"stub", "crate"} :
          session = [SessionIdle EXCEPT !.pc = "awaiting", !.handler = h]
    /\ stream = StreamIdle
    /\ summary = SummaryIdle
    /\ planned = PlannedIdle
    /\ executor = ExecutorIdle
    /\ crun = CrunIdle
    /\ autorun = AutorunIdle
    /\ budget = BudgetIdle
    /\ cw = CwIdle

NextRepl ==
    \/ CtrlC
    \/ ReplRead
    \/ ReplTurn

SpecRepl == InitRepl /\ [][NextRepl]_vars

\* C25: every non-empty non-command input leads to one run of the handler
\* of its intent, after which the REPL awaits input again whether the turn
\* succeeded or failed; the REPL stops only on an exit command or when
\* its input is closed.
C25_ReplKeepsGoing ==
    /\ session.pc = "orchestrating" =>
          /\ ReplCommand(session.input) = "message"
          /\ session.intent = detect_intent(session.input)
          /\ session.handled = 0
    /\ (session.pc = "awaiting" /\ session.input # <<>>
        /\ ReplCommand(session.input) = "message") =>
          /\ session.handled = 1
          /\ session.result \in {"Ok", "Err"}
    /\ session.pc = "stopped" => session.result \in {"exit", "input_closed"}

-----------------------------------------------------------------------------
(* main.rs: the capture loop of run_and_capture                            *)

\* The lines a child writes in the model.
MaxLines == 3

Streams == {"stdout", "stderr"}

\* The child writes its next line to one of its two pipes. Lines are
\* numbered in the order in which they are produced.
ChildWrite ==
    /\ stream.pc = "select" /\ stream.child = "running"
    /\ stream.lines < MaxLines
    /\ \E s \in Streams :
          stream' = [stream EXCEPT
                        !.lines = @ + 1,
                        !.pipe[s] = Append(@, [stream |-> s,
                                               n |-> stream.lines + 1])]
    /\ UNCHANGED nonStreamVars

\* The child exits: the write ends of both pipes are closed.
ChildExit ==
    /\ stream.pc \in {"select", "wait"} /\ stream.child = "running"
    /\ stream' = [stream EXCEPT !.child = "exited"]
    /\ UNCHANGED nonStreamVars

\* One branch of the select is ready: a line or the end of the pipe.
Ready(s) ==
    /\ ~stream.done[s]
    /\ stream.pipe[s] # <<>> \/ stream.child = "exited"

\* One turn of while !(stdout_done && stderr_done) { tokio::select! {...} }
\* taken by the branch of reader s, which is ready: Ok(Some(l)) emits the
\* line to the terminal, the log and combined_tail (writeln!(log_file)?
\* returns on failure), Ok(None) and Err(e) mark the reader done.
SelectBranch(s) ==
    /\ stream.pc = "select"
    /\ Ready(s)
    /\ \E res \in {"line", "read_error", "log_error"} :
          LET st == IF stream.pipe[s] = <<>>
                    THEN [stream EXCEPT !.done[s] = TRUE]
                    ELSE IF res = "read_error"
                    THEN [stream EXCEPT !.done[s] = TRUE]
                    ELSE IF res = "log_error"
                    THEN [stream EXCEPT !.pc = "done", !.result = "Err",
                                        !.pipe[s] = Tail(@)]
                    ELSE [stream EXCEPT
                             !.pipe[s] = Tail(@),
                             !.emitted = Append(@, stream.pipe[s][1])]
          IN stream' = IF st.pc = "select" /\ st.done["stdout"]
                          /\ st.done["stderr"]
                       THEN [st EXCEPT !.pc = "wait"]
                       ELSE st
    /\ UNCHANGED nonStreamVars

\* let status = child.wait().await?, and Ok(RunResult {...}).
RunWait ==
    /\ stream.pc = "wait" /\ stream.child = "exited"
    /\ stream' = [stream EXCEPT !.pc = "done", !.result = "Ok"]
    /\ UNCHANGED nonStreamVars

\* The child has been spawned with both pipes captured.
InitRun ==
    /\ GLOBAL_DRY_RUN = FALSE
    /\ GLOBAL_GUARD = FALSE
    /\ GLOBAL_TIMELINE = <<>>
    /\ TASK_QUEUE = <<>>
    /\ envDryRun = FALSE
    /\ runner = [max_retries |-> 0]
    /\ heal = HealIdle
    /\ fixer = FixerIdle
    /\ UNSAFE_MODE = FALSE
    /\ CONFIG = [ask_before_destructive |-> TRUE]
    /\ exec = ExecIdle
    /\ rcall = RcallIdle
    /\ disk = DiskIdle
    /\ aw = AwIdle
    /\ tree = TreeIdle
    /\ manifest = {}
    /\ orch = OrchIdle
    /\ clock = 0
    /\ sched = SchedIdle
    /\ TIMELINE = <<>>
    /\ rec = RecIdle
    /\ goal = GoalIdle
    /\ memory = MemoryIdle
    /\ session = SessionIdle
    /\ stream = [StreamIdle EXCEPT !.pc = "select", !.child = "running"]
    /\ summary = SummaryIdle
    /\ planned = PlannedIdle
    /\ executor = ExecutorIdle
    /\ crun = CrunIdle
    /\ autorun = AutorunIdle
    /\ budget = BudgetIdle
    /\ cw = CwIdle

NextRun ==
    \/ ChildWrite
    \/ ChildExit
    \/ \E s \in Streams : SelectBranch(s)
    \/ RunWait

SpecRun == InitRun /\ [][NextRun]_vars

\* The capture loop and the wait take their steps whenever they can; the
\* child is free never to write and never to exit.
SpecRunFair ==
    /\ SpecRun
    /\ \A s \in Streams : WF_vars(SelectBranch(s))
    /\ WF_vars(RunWait)

\* C26: the lines of one command are emitted in the order produced: a line
\* that was written earlier, on either stream, is emitted earlier.
C26_ArrivalOrder ==
    \A i, j \in 1..Len(stream.emitted) :
        i < j => stream.emitted[i].n < stream.emitted[j].n

\* C27: a run does not wait forever: once the child is spawned, the run
\* comes to return, also for a child that neither exits nor writes.
C27_RunEnds == (stream.pc = "select") ~> (stream.pc = "done")

\* C38: when execute_due_tasks returns, every task it removed from the queue
\* has been run through safety check, edits, actions and commit, or is in
\* the queue again: the tasks completed and the tasks queued make up the
\* queue the call found, also after an error.
C38_NoTaskLost ==
    sched.pc = "done" =>
        sched.done + Len(TASK_QUEUE) = Len(sched.before)

\* The step writes the edit target p with atomic_write: the attempt's log
\* gains the write of p.
AppliesEdit(p) ==
    /\ orch.pc = "apply"
    /\ Len(orch'.log) > Len(orch.log)
    /\ orch'.log[Len(orch.log) + 1] = Ev("write", p)

\* C40: within one turn no planned edit is applied twice, whatever the
\* outcome of orchestration and verification in the outer attempts: no step
\* of the turn writes an edit target that a step of the same turn has
\* already written (tree[p] = "edited").
C40_EditAppliedOnce ==
    [][\A p \in DOMAIN tree :
          (sched.pc = "idle" /\ tree[p] = "edited") => ~AppliesEdit(p)]_vars

-----------------------------------------------------------------------------
(* main.rs: the informational path of orchestrate                          *)

\* C28: in an attempt whose plan has no edit and no action, from the summary
\* on, the turn writes no edit target, exports no patch and starts no
\* subprocess, neither for an action nor for the verification: the event
\* log of the turn holds no write, export, exec or spawn and run_and_capture
\* is never entered.
C28_InformationalMutatesNothing ==
    (/\ orch.pc \in {"summary", "verify", "await_verify"}
     /\ orch.plan.edit = <<>>
     /\ orch.plan.actions = <<>>) =>
        /\ exec = ExecIdle
        /\ orch.attempt = 1 =>
              \A i \in 1..Len(orch.log) :
                  orch.log[i].op \notin {"write", "export", "exec", "spawn"}

-----------------------------------------------------------------------------
(* main.rs: the context of the informational summary (orchestrate and      *)
(* handle_info_message share the loop)                                     *)

\* The longest list of picked files of the model.
MaxPicked == 9

\* picked.iter().take(8)
TakeFiles == 8

\* if s.len() > 20 * 1024 { s.truncate(20 * 1024); ... }: 20 KiB in bytes.
FileCap == 20480

\* if total > 80 * 1024 { break; }: 80 KiB in bytes.
TotalCap == 81920

\* "\n…(truncated)…".len(): two ellipses of three bytes each, a newline and
\* eleven ASCII bytes.
TruncMarkerLen == 18

\* The lengths in bytes of the files read.
FileLens == {0, 100, FileCap, FileCap + 1}

\* What one file that was read adds to the context: s.len() after the
\* truncation and the marker.
Contribution(len) ==
    IF len > FileCap THEN FileCap + TruncMarkerLen ELSE len

\* The informational path starts gathering: picked is plan.read or the
\* probes that exist; total = 0 and blobs is empty.
SummaryStart ==
    /\ summary.pc = "idle"
    /\ \E n \in 0..MaxPicked :
          summary' = [SummaryIdle EXCEPT !.pc = "loop", !.picked = n]
    /\ UNCHANGED nonSummaryVars

\* One turn of `for rel in picked.iter().take(8)`: a file that cannot be
\* read is skipped; otherwise its text is cut, added to total and pushed on
\* blobs, and the loop breaks once total is over 80 KiB.
SummaryFile ==
    /\ summary.pc = "loop"
    /\ summary.seen < Min({summary.picked, TakeFiles})
    /\ \E readable \in BOOLEAN, len \in FileLens :
          LET s == Contribution(len)
              total == summary.total + s
          IN summary' =
                IF ~readable
                THEN [summary EXCEPT !.seen = @ + 1]
                ELSE [summary EXCEPT
                         !.seen = @ + 1,
                         !.blobs = @ + 1,
                         !.total = total,
                         !.largest = Max({@, s}),
                         !.pc = IF total > TotalCap THEN "built" ELSE "loop"]
    /\ UNCHANGED nonSummaryVars

\* The iterator is exhausted: the blobs go to the summarizer.
SummaryBuilt ==
    /\ summary.pc = "loop"
    /\ summary.seen = Min({summary.picked, TakeFiles})
    /\ summary' = [summary EXCEPT !.pc = "built"]
    /\ UNCHANGED nonSummaryVars

InitSummary ==
    /\ GLOBAL_DRY_RUN = FALSE
    /\ GLOBAL_GUARD = FALSE
    /\ GLOBAL_TIMELINE = <<>>
    /\ TASK_QUEUE = <<>>
    /\ envDryRun = FALSE
    /\ runner = [max_retries |-> 0]
    /\ heal = HealIdle
    /\ fixer = FixerIdle
    /\ UNSAFE_MODE = FALSE
    /\ CONFIG = [ask_before_destructive |-> TRUE]
    /\ exec = ExecIdle
    /\ rcall = RcallIdle
    /\ disk = DiskIdle
    /\ aw = AwIdle
    /\ tree = TreeIdle
    /\ manifest = {}
    /\ orch = OrchIdle
    /\ clock = 0
    /\ sched = SchedIdle
    /\ TIMELINE = <<>>
    /\ rec = RecIdle
    /\ goal = GoalIdle
    /\ memory = MemoryIdle
    /\ session = SessionIdle
    /\ stream = StreamIdle
    /\ summary = SummaryIdle
    /\ planned = PlannedIdle
    /\ executor = ExecutorIdle
    /\ crun = CrunIdle
    /\ autorun = AutorunIdle
    /\ budget = BudgetIdle
    /\ cw = CwIdle

NextSummary ==
    \/ SummaryStart
    \/ SummaryFile
    \/ SummaryBuilt

SpecSummary == InitSummary /\ [][NextSummary]_vars

\* C29: the summarizer receives at most 8 files, each contributing at most
\* 20 KiB, with a combined size of at most 80 KiB.
C29_SummaryContextBounded ==
    summary.pc # "idle" =>
        /\ summary.blobs <= 8
        /\ summary.largest <= 20 * 1024
        /\ summary.total <= 80 * 1024

-----------------------------------------------------------------------------
(* planner.rs: plan_changes, the size of the plan it returns               *)

\* The files of the project that a request or an LM response can name.
Pool ==
    {<<"a.rs">>, <<"b.rs">>, <<"c.rs">>, <<"d.rs">>, <<"e.rs">>, <<"f.rs">>,
     <<"g.rs">>}

\* The read and edit lists of the JSON values the router client returns.
LlmFiles ==
    {[read |-> <<<<"a.rs">>, <<"b.rs">>>>, edit |-> <<<<"c.rs">>>>],
     [read |-> <<<<"a.rs">>, <<"b.rs">>, <<"c.rs">>, <<"d.rs">>>>,
      edit |-> <<<<"e.rs">>, <<"f.rs">>, <<"g.rs">>>>],
     [read |-> <<<<"a.rs">>, <<"b.rs">>, <<"c.rs">>, <<"d.rs">>, <<"e.rs">>,
                 <<"f.rs">>, <<"g.rs">>>>,
      edit |-> <<>>]}

\* plan_changes, LLM branch: the value parses into a Plan, the budget note
\* makes notes non-empty, read and edit keep the entries that exist, and
\* the plan is returned.
PlanFromLlm ==
    /\ planned.pc = "idle"
    /\ \E v \in LlmFiles, exists \in SUBSET Pool :
          LET read == SelectSeq(v.read, LAMBDA x : x \in exists)
              edit == SelectSeq(v.edit, LAMBDA x : x \in exists)
          IN planned' = [pc |-> "returned", llm |-> "Ok",
                         read0 |-> read, edit0 |-> edit,
                         read |-> read, edit |-> edit]
    /\ UNCHANGED nonPlannedVars

\* plan_changes, llm_value is Err: fallback_plan.  The tokens of the request
\* that exist all go to edit_set or all to read_set; with neither, the
\* probes that exist are read; the sets are drained in some order and cut.
PlanFallback ==
    /\ planned.pc = "idle"
    /\ \E found \in SUBSET Pool, isEdit \in BOOLEAN :
          LET edit_set == IF isEdit THEN found ELSE {}
              read_sets == IF found = {}
                           THEN SUBSET {Probes[i] : i \in 1..Len(Probes)}
                           ELSE IF isEdit THEN {{}} ELSE {found}
          IN \E read_set \in read_sets :
             \E r \in Orders(read_set), e \in Orders(edit_set) :
                LET capped == CapPlan(r, e)
                IN planned' = [pc |-> "returned", llm |-> "Err",
                               read0 |-> r, edit0 |-> e,
                               read |-> capped.read, edit |-> capped.edit]
    /\ UNCHANGED nonPlannedVars

\* The caller takes the plan; the next request.
PlanTaken ==
    /\ planned.pc = "returned"
    /\ planned' = PlannedIdle
    /\ UNCHANGED nonPlannedVars

InitPlanner ==
    /\ GLOBAL_DRY_RUN = FALSE
    /\ GLOBAL_GUARD = FALSE
    /\ GLOBAL_TIMELINE = <<>>
    /\ TASK_QUEUE = <<>>
    /\ envDryRun = FALSE
    /\ runner = [max_retries |-> 0]
    /\ heal = HealIdle
    /\ fixer = FixerIdle
    /\ UNSAFE_MODE = FALSE
    /\ CONFIG = [ask_before_destructive |-> TRUE]
    /\ exec = ExecIdle
    /\ rcall = RcallIdle
    /\ disk = DiskIdle
    /\ aw = AwIdle
    /\ tree = TreeIdle
    /\ manifest = {}
    /\ orch = OrchIdle
    /\ clock = 0
    /\ sched = SchedIdle
    /\ TIMELINE = <<>>
    /\ rec = RecIdle
    /\ goal = GoalIdle
    /\ memory = MemoryIdle
    /\ session = SessionIdle
    /\ stream = StreamIdle
    /\ summary = SummaryIdle
    /\ planned = PlannedIdle
    /\ executor = ExecutorIdle
    /\ crun = CrunIdle
    /\ autorun = AutorunIdle
    /\ budget = BudgetIdle
    /\ cw = CwIdle

NextPlanner ==
    \/ PlanFromLlm
    \/ PlanFallback
    \/ PlanTaken

SpecPlanner == InitPlanner /\ [][NextPlanner]_vars

\* p is q without some of its last entries.
IsPrefix(p, q) == Len(p) <= Len(q) /\ p = SubSeq(q, 1, Len(p))

\* C30: every plan plan_changes returns has |read| + |edit| <= 6; what was
\* cut was cut from the end of read first, and edit lost an entry only when
\* read was left empty.
C30_PlanCapped ==
    planned.pc = "returned" =>
        /\ Len(planned.read) + Len(planned.edit) <= 6
        /\ IsPrefix(planned.read, planned.read0)
        /\ IsPrefix(planned.edit, planned.edit0)
        /\ Len(planned.edit) < Len(planned.edit0) => planned.read = <<>>

-----------------------------------------------------------------------------
(* runner.rs: TaskGraph::validate and ExecutorAgent::execute               *)

\* The largest concurrency handed to ExecutorAgent::new.
MaxConcurrency == 2

\* The ids of the tasks of a graph, and the names a deps list can hold: "x"
\* is the id of no task.
TaskIds == {"a", "b", "c"}
DepNames == TaskIds \cup {"x"}

\* The task graphs: graph.tasks as a function from the ids to the deps of
\* the task (the deps lists as sets).
TaskGraphs ==
    UNION {[ids -> SUBSET DepNames] : ids \in SUBSET TaskIds}

\* The tasks whose deps hold node.
DependentsOf(g, node) == {t \in DOMAIN g : node \in g[t]}

\* validate, the loop `while let Some(node) = queue.pop()`: the number of
\* nodes visited. The count does not depend on the order of the queue.
RECURSIVE KahnVisited(_, _, _, _)
KahnVisited(g, indegree, queue, visited) ==
    IF queue = {} THEN visited
    ELSE LET node == CHOOSE n \in queue : TRUE
             dependents == DependentsOf(g, node)
             indeg == [id \in DOMAIN indegree |->
                          IF id \in dependents THEN indegree[id] - 1
                          ELSE indegree[id]]
             pushed == {id \in dependents : indeg[id] = 0}
         IN KahnVisited(g, indeg, (queue \ {node}) \cup pushed, visited + 1)

\* TaskGraph::validate: the dependencies exist; then indegree[id] is raised
\* once for every task that names id in its deps, the queue starts with the
\* ids of indegree 0, and the graph passes when every task was visited.
validate(g) ==
    IF \E t \in DOMAIN g : \E d \in g[t] : d \notin DOMAIN g
    THEN "UnknownDependency"
    ELSE LET indegree == [id \in DOMAIN g |->
                             Cardinality(DependentsOf(g, id))]
             queue == {id \in DOMAIN g : indegree[id] = 0}
         IN IF KahnVisited(g, indegree, queue, 0) # Cardinality(DOMAIN g)
            THEN "Cycle"
            ELSE "Ok"

\* ExecutorAgent::new: values less than 1 are treated as 1.
ConcurrencyCap(concurrency) == IF concurrency = 0 THEN 1 ELSE concurrency

\* What recv leaves in the channel.
ReceivedKeeping(chan) == chan

Received(chan) == Tail(chan)

\* execute(graph) up to the spawning of the workers: validate()?, the
\* indegree map (the number of deps of each task), the ready tasks sent in
\* the order of the map's iteration, one worker for each unit of concurrency.
ExecutorStart ==
    /\ executor.pc = "idle"
    /\ \E g \in TaskGraphs, c \in 0..MaxConcurrency :
          LET v == validate(g)
              indegree == [id \in DOMAIN g |-> Cardinality(g[id])]
              s0 == [ExecutorIdle EXCEPT !.graph = g, !.valid = v,
                                         !.concurrency = ConcurrencyCap(c)]
          IN IF v # "Ok"
             THEN executor' = [s0 EXCEPT !.pc = "done",
                                         !.result = "InvalidInput"]
             ELSE \E chan \in Orders({id \in DOMAIN g : indegree[id] = 0}) :
                     executor' =
                        [s0 EXCEPT
                            !.pc = "running",
                            !.indegree = indegree,
                            !.chan = chan,
                            !.worker = [w \in 1..ConcurrencyCap(c) |->
                                           [pc |-> "lock", task |-> "none"]],
                            !.status = [id \in DOMAIN g |-> "pending"],
                            !.runs = [id \in DOMAIN g |-> 0]]
    /\ UNCHANGED nonExecutorVars

Workers == 1..(MaxConcurrency + 1)

\* let lock = rx.lock().unwrap(): the worker takes the mutex of the receiver.
WorkerLock(w) ==
    /\ executor.pc = "running"
    /\ w \in DOMAIN executor.worker
    /\ executor.worker[w].pc = "lock"
    /\ executor.rx = 0
    /\ executor' = [executor EXCEPT !.rx = w, !.worker[w].pc = "recv"]
    /\ UNCHANGED nonExecutorVars

\* lock.recv() returns Ok(id) and the mutex is released. With an empty
\* channel recv blocks, holding the mutex: execute keeps tx_arc until it
\* returns and every worker keeps its clone, so the channel is never
\* disconnected and recv never returns Err while a worker is alive.
WorkerRecv(w) ==
    /\ executor.pc = "running"
    /\ w \in DOMAIN executor.worker
    /\ executor.worker[w].pc = "recv"
    /\ executor.chan # <<>>
    /\ executor' = [executor EXCEPT
                       !.chan = Received(@),
                       !.rx = 0,
                       !.worker[w] = [pc |-> "got", task |-> Head(executor.chan)]]
    /\ UNCHANGED nonExecutorVars

\* if err_flag.lock().unwrap().is_some() { break }, then tasks.get(&task_id)
\* and the start of the task.
WorkerCheck(w) ==
    /\ executor.pc = "running"
    /\ w \in DOMAIN executor.worker
    /\ executor.worker[w].pc = "got"
    /\ LET id == executor.worker[w].task
       IN executor' =
             IF executor.err # "none"
             THEN [executor EXCEPT !.worker[w].pc = "exited"]
             ELSE [executor EXCEPT !.worker[w].pc = "run",
                                   !.status[id] = "running",
                                   !.runs[id] = @ + 1]
    /\ UNCHANGED nonExecutorVars

\* The task has run: an Err is recorded when it is the first and the worker
\* breaks; after an Ok the indegree of each dependent is lowered and the
\* dependents that reach 0 are sent.
WorkerRun(w) ==
    /\ executor.pc = "running"
    /\ w \in DOMAIN executor.worker
    /\ executor.worker[w].pc = "run"
    /\ LET id == executor.worker[w].task
           children == DependentsOf(executor.graph, id)
           indeg == [t \in DOMAIN executor.indegree |->
                        IF t \in children THEN executor.indegree[t] - 1
                        ELSE executor.indegree[t]]
       IN \E ok \in BOOLEAN :
             IF ~ok
             THEN executor' =
                     [executor EXCEPT
                         !.err = IF @ = "none" THEN id ELSE @,
                         !.status[id] = "failed",
                         !.worker[w].pc = "exited"]
             ELSE \E sent \in Orders({t \in children : indeg[t] = 0}) :
                     executor' =
                        [executor EXCEPT
                            !.indegree = indeg,
                            !.chan = @ \o sent,
                            !.status[id] = "ok",
                            !.worker[w].pc = "lock"]
    /\ UNCHANGED nonExecutorVars

\* for h in handles { h.join() } has returned: error_flag decides the result.
ExecutorJoin ==
    /\ executor.pc = "running"
    /\ \A w \in DOMAIN executor.worker : executor.worker[w].pc = "exited"
    /\ executor' = [executor EXCEPT
                       !.pc = "done",
                       !.result = IF executor.err # "none" THEN "Err" ELSE "Ok"]
    /\ UNCHANGED nonExecutorVars

InitExecutor ==
    /\ GLOBAL_DRY_RUN = FALSE
    /\ GLOBAL_GUARD = FALSE
    /\ GLOBAL_TIMELINE = <<>>
    /\ TASK_QUEUE = <<>>
    /\ envDryRun = FALSE
    /\ runner = [max_retries |-> 0]
    /\ heal = HealIdle
    /\ fixer = FixerIdle
    /\ UNSAFE_MODE = FALSE
    /\ CONFIG = [ask_before_destructive |-> TRUE]
    /\ exec = ExecIdle
    /\ rcall = RcallIdle
    /\ disk = DiskIdle
    /\ aw = AwIdle
    /\ tree = TreeIdle
    /\ manifest = {}
    /\ orch = OrchIdle
    /\ clock = 0
    /\ sched = SchedIdle
    /\ TIMELINE = <<>>
    /\ rec = RecIdle
    /\ goal = GoalIdle
    /\ memory = MemoryIdle
    /\ session = SessionIdle
    /\ stream = StreamIdle
    /\ summary = SummaryIdle
    /\ planned = PlannedIdle
    /\ executor = ExecutorIdle
    /\ crun = CrunIdle
    /\ autorun = AutorunIdle
    /\ budget = BudgetIdle
    /\ cw = CwIdle

NextExecutor ==
    \/ ExecutorStart
    \/ \E w \in Workers : WorkerLock(w)
    \/ \E w \in Workers : WorkerRecv(w)
    \/ \E w \in Workers : WorkerCheck(w)
    \/ \E w \in Workers : WorkerRun(w)
    \/ ExecutorJoin

SpecExecutor == InitExecutor /\ [][NextExecutor]_vars

\* Every worker thread and the joining thread take their steps whenever
\* they can.
SpecExecutorFair ==
    /\ SpecExecutor
    /\ \A w \in Workers :
          /\ WF_vars(WorkerLock(w))
          /\ WF_vars(WorkerRecv(w))
          /\ WF_vars(WorkerCheck(w))
          /\ WF_vars(WorkerRun(w))
    /\ WF_vars(ExecutorJoin)

\* C31: a call of execute that has passed validate and started its workers
\* eventually returns.
C31_ExecuteReturns ==
    (executor.pc = "running") ~> (executor.pc = "done")

\* The tasks that t depends on, directly or through other tasks.
RECURSIVE ReachableDeps(_, _, _)
ReachableDeps(g, from, n) ==
    IF n = 0 THEN from
    ELSE ReachableDeps(g, from \cup UNION {g[t] : t \in from \cap DOMAIN g},
                       n - 1)

DepsExist(g) == \A t \in DOMAIN g : g[t] \subseteq DOMAIN g

Acyclic(g) ==
    \A t \in DOMAIN g : t \notin ReachableDeps(g, g[t], Cardinality(DOMAIN g))

\* C32: validate returns Ok exactly for the graphs in which every
\* dependency names an existing task and the dependency relation is
\* acyclic, and InvalidInput for the others.
C32_ValidateIsDagCheck ==
    executor.pc # "idle" =>
        (executor.valid = "Ok") = (DepsExist(executor.graph) /\ Acyclic(executor.graph))

-----------------------------------------------------------------------------
(* runner.rs: CommandRunner::run, the retry loop                           *)

\* The values of max_retries (a u32) the runner is built with.
RetryPolicies == {0, 1, 2, 65}

\* 2u64.pow(attempt) does not fit 64 bits from this exponent on.
U64Bits == 64

\* What one attempt can come to: exit status 0, another exit status, or an
\* I/O error of Command::output.
AttemptOutcomes == {"success", "nonzero", "spawn_error"}

\* run(command) up to the loop: guard_check(command)?, the dry-run return,
\* attempt = 0 and last_error = None. The build either checks arithmetic
\* overflow (debug profile) or wraps (release profile).
CrunStart ==
    /\ crun.pc = "idle"
    /\ \E command \in {CmdCargoBuild, CmdRmRf}, resp \in {"y", "n"},
          m \in RetryPolicies, checks \in BOOLEAN :
          LET g == guard_check(command, GLOBAL_GUARD, resp)
              s0 == [CrunIdle EXCEPT !.max_retries = m,
                                     !.overflow_checks = checks,
                                     !.verdict = g.verdict]
          IN crun' = IF g.verdict # "Ok"
                     THEN [s0 EXCEPT !.pc = "done",
                                     !.result = "PermissionDenied"]
                     ELSE IF GLOBAL_DRY_RUN
                     THEN [s0 EXCEPT !.pc = "done", !.result = "Ok"]
                     ELSE [s0 EXCEPT !.pc = "loop"]
    /\ UNCHANGED nonCrunVars

\* One turn of the loop: `sh -c command` is run; a success returns its
\* stdout; an I/O error is kept in last_error; with attempt >= max_retries
\* the loop breaks and the error is last_error or, when it is None, Other;
\* otherwise the back-off base_delay_ms.saturating_mul(2u64.pow(attempt)) is
\* slept and attempt is raised.
CrunAttempt ==
    /\ crun.pc = "loop"
    /\ \E outcome \in AttemptOutcomes :
          LET n == crun.spawns + 1
              le == IF outcome = "spawn_error" THEN n ELSE crun.last_error
              s1 == [crun EXCEPT !.spawns = n, !.last = outcome,
                                 !.last_error = le]
          IN crun' =
                IF outcome = "success"
                THEN [s1 EXCEPT !.pc = "done", !.result = "Ok"]
                ELSE IF crun.attempt >= crun.max_retries
                THEN [s1 EXCEPT !.pc = "done",
                                !.result = IF le # 0 THEN "Io" ELSE "Other",
                                !.err_of = le]
                ELSE IF crun.attempt >= U64Bits /\ crun.overflow_checks
                THEN [s1 EXCEPT !.pc = "done", !.result = "panic"]
                ELSE [s1 EXCEPT !.attempt = @ + 1]
    /\ UNCHANGED nonCrunVars

\* The caller has the result; the next call.
CrunReturn ==
    /\ crun.pc = "done"
    /\ crun' = CrunIdle
    /\ UNCHANGED nonCrunVars

InitCrun ==
    /\ GLOBAL_DRY_RUN \in BOOLEAN
    /\ GLOBAL_GUARD \in BOOLEAN
    /\ GLOBAL_TIMELINE = <<>>
    /\ TASK_QUEUE = <<>>
    /\ envDryRun = FALSE
    /\ runner = [max_retries |-> 0]
    /\ heal = HealIdle
    /\ fixer = FixerIdle
    /\ UNSAFE_MODE = FALSE
    /\ CONFIG = [ask_before_destructive |-> TRUE]
    /\ exec = ExecIdle
    /\ rcall = RcallIdle
    /\ disk = DiskIdle
    /\ aw = AwIdle
    /\ tree = TreeIdle
    /\ manifest = {}
    /\ orch = OrchIdle
    /\ clock = 0
    /\ sched = SchedIdle
    /\ TIMELINE = <<>>
    /\ rec = RecIdle
    /\ goal = GoalIdle
    /\ memory = MemoryIdle
    /\ session = SessionIdle
    /\ stream = StreamIdle
    /\ summary = SummaryIdle
    /\ planned = PlannedIdle
    /\ executor = ExecutorIdle
    /\ crun = CrunIdle
    /\ autorun = AutorunIdle
    /\ budget = BudgetIdle
    /\ cw = CwIdle

NextCrun ==
    \/ CrunStart
    \/ CrunAttempt
    \/ CrunReturn

SpecCrun == InitCrun /\ [][NextCrun]_vars

\* C34: a call of run that has ended made at most max_retries + 1 attempts;
\* it made none when the guardrail rejected the command; no attempt follows
\* a successful one; and when every attempt failed it made exactly
\* max_retries + 1 attempts.
C34_AttemptsBounded ==
    /\ crun.spawns <= crun.max_retries + 1
    /\ crun.last = "success" => crun.pc = "done" /\ crun.result = "Ok"
    /\ crun.pc = "done" =>
          /\ crun.verdict # "Ok" => crun.spawns = 0
          /\ (crun.spawns > 0 /\ crun.last # "success") =>
                crun.spawns = crun.max_retries + 1

\* C35: after the attempts are exhausted the error returned is that of the
\* final attempt: its spawn error when it could not be spawned, the generic
\* Other error when it ran and exited unsuccessfully.
C35_LastErrorReturned ==
    (crun.pc = "done" /\ crun.result \in {"Io", "Other"}) =>
        /\ crun.last = "spawn_error" =>
              crun.result = "Io" /\ crun.err_of = crun.spawns
        /\ crun.last = "nonzero" => crun.result = "Other"

-----------------------------------------------------------------------------
(* runner.rs: FileWatcher::has_changed and AutonomousRunner::run           *)

\* The files under the watched directory and their modification times; 0
\* stands for a file that does not exist.
WatchedFiles == {"f", "g"}
Mtimes == 0..2

\* collect_timestamps: the files that exist, with their times.
collect_timestamps(files) == [p \in {q \in DOMAIN files : files[q] # 0} |-> files[p]]

\* has_changed, the comparison of the new snapshot with the stored one.
changed(timestamps, current) ==
    \/ \E path \in DOMAIN current :
          path \notin DOMAIN timestamps \/ timestamps[path] # current[path]
    \/ Cardinality(DOMAIN timestamps) # Cardinality(DOMAIN current)

\* A file of the watched directory is written, created or removed.
FileTouched ==
    /\ autorun.pc # "idle"
    /\ \E p \in WatchedFiles, t \in Mtimes :
          /\ autorun.files[p] # t
          /\ autorun' = [autorun EXCEPT !.files[p] = t]
    /\ UNCHANGED nonAutorunVars

\* run, step 1: self.watcher.has_changed(). Ok(true) goes on to the planner,
\* Ok(false) and Err(e) (the scan failed, the snapshot is kept) to the
\* pipeline.
AutorunPoll ==
    /\ autorun.pc = "poll"
    /\ \E scanned \in BOOLEAN :
          LET current == collect_timestamps(autorun.files) IN
          autorun' =
             IF ~scanned THEN [autorun EXCEPT !.pc = "pipeline"]
             ELSE [autorun EXCEPT
                      !.timestamps = current,
                      !.pc = IF changed(autorun.timestamps, current)
                             THEN "planner" ELSE "pipeline"]
    /\ UNCHANGED nonAutorunVars

\* execute_planner(): an Err is logged and the loop continues with the next
\* has_changed, without the pipeline and without the sleep.
AutorunPlanner ==
    /\ autorun.pc = "planner"
    /\ \E ok \in BOOLEAN :
          autorun' = [autorun EXCEPT
                         !.planner = IF ok THEN "Ok" ELSE "Err",
                         !.pc = IF ok THEN "pipeline" ELSE "poll"]
    /\ UNCHANGED nonAutorunVars

\* run, step 2: execute_pipeline(); an Err is logged.
AutorunPipeline ==
    /\ autorun.pc = "pipeline"
    /\ \E ok \in BOOLEAN :
          autorun' = [autorun EXCEPT
                         !.pipeline = IF ok THEN "Ok" ELSE "Err",
                         !.pc = "sleep"]
    /\ UNCHANGED nonAutorunVars

\* run, step 3: sleep(self.poll_interval), and the next turn of the loop.
AutorunSleep ==
    /\ autorun.pc = "sleep"
    /\ autorun' = [autorun EXCEPT !.pc = "poll"]
    /\ UNCHANGED nonAutorunVars

InitAutorun ==
    /\ GLOBAL_DRY_RUN = FALSE
    /\ GLOBAL_GUARD = FALSE
    /\ GLOBAL_TIMELINE = <<>>
    /\ TASK_QUEUE = <<>>
    /\ envDryRun = FALSE
    /\ runner = [max_retries |-> 0]
    /\ heal = HealIdle
    /\ fixer = FixerIdle
    /\ UNSAFE_MODE = FALSE
    /\ CONFIG = [ask_before_destructive |-> TRUE]
    /\ exec = ExecIdle
    /\ rcall = RcallIdle
    /\ disk = DiskIdle
    /\ aw = AwIdle
    /\ tree = TreeIdle
    /\ manifest = {}
    /\ orch = OrchIdle
    /\ clock = 0
    /\ sched = SchedIdle
    /\ TIMELINE = <<>>
    /\ rec = RecIdle
    /\ goal = GoalIdle
    /\ memory = MemoryIdle
    /\ session = SessionIdle
    /\ stream = StreamIdle
    /\ summary = SummaryIdle
    /\ planned = PlannedIdle
    /\ executor = ExecutorIdle
    /\ crun = CrunIdle
    /\ \E files \in [WatchedFiles -> Mtimes] :
          autorun = [AutorunIdle EXCEPT
                        !.pc = "poll",
                        !.files = files,
                        !.timestamps = collect_timestamps(files)]
    /\ budget = BudgetIdle
    /\ cw = CwIdle

NextAutorun ==
    \/ FileTouched
    \/ AutorunPoll
    \/ AutorunPlanner
    \/ AutorunPipeline
    \/ AutorunSleep

SpecAutorun == InitAutorun /\ [][NextAutorun]_vars

\* C36: the pipeline is executed only while the latest planner execution
\* was a success: after a failed planner execution the pipeline is not
\* reached until the planner has been executed again with success.
C36_PipelineAfterPlanner ==
    autorun.pc \in {"pipeline", "sleep"} => autorun.planner # "Err"

-----------------------------------------------------------------------------
(* planner.rs: enforce_safety_budget                                       *)

\* const MAX_TASKS: usize = 20
MAX_TASKS == 20

\* The task types of the graphs of the model.
TaskTypes == {"Edit", "Test"}

\* A task of the planner's TaskGraph: id, task_type and depends_on; merged
\* counts the tasks whose title, outputs and tool_calls it has taken.
PlanTask(id, task_type, depends_on) ==
    [id |-> id, task_type |-> task_type, depends_on |-> depends_on,
     merged |-> 0]

\* The linear graphs generate_task_graph builds (task idx depends on idx - 1),
\* of n tasks, in which the task type changes from each task to the next but
\* at the positions of same.
ChainGraph(n, first, same) ==
    LET other(t) == IF t = "Edit" THEN "Test" ELSE "Edit"
        flips(k) == Cardinality({p \in 1..k : p \notin same})
        typeAt(k) == IF flips(k) % 2 = 0 THEN first ELSE other(first)
    IN [k \in 1..n |->
           PlanTask(k - 1, typeAt(k - 1),
                    IF k = 1 THEN <<>> ELSE <<k - 2>>)]

\* The graphs handed to enforce_safety_budget: chains of 20 to 22 tasks with
\* at most two places where two neighbours have the same type.
BudgetGraphs ==
    {ChainGraph(n, first, same) :
        n \in MAX_TASKS..(MAX_TASKS + 2), first \in TaskTypes,
        same \in {s \in SUBSET (1..4) : Cardinality(s) <= 2}
                 \cup {{MAX_TASKS}, {3, MAX_TASKS}}}

\* The inner loop: while tasks[j] has the type of current and depends on
\* exactly current.id, current takes its title, outputs and tool_calls, and
\* its depends_on.
RECURSIVE MergeRun(_, _, _)
MergeRun(tasks, current, j) ==
    IF j <= Len(tasks)
       /\ tasks[j].task_type = current.task_type
       /\ tasks[j].depends_on = <<current.id>>
    THEN MergeRun(tasks,
                  [current EXCEPT !.merged = @ + 1,
                                  !.depends_on = tasks[j].depends_on],
                  j + 1)
    ELSE [current |-> current, j |-> j]

\* The outer loop, from index i on (indices from 1).
RECURSIVE Compress(_, _)
Compress(tasks, i) ==
    IF i > Len(tasks) THEN <<>>
    ELSE LET r == MergeRun(tasks, tasks[i], i + 1)
         IN <<r.current>> \o Compress(tasks, r.j)

\* The new ids: position in compressed, and id_map from the old ids; a
\* dependency whose old id is not in id_map is dropped.
Reassign(compressed) ==
    LET id_map(old) ==
            LET hits == {k \in 1..Len(compressed) : compressed[k].id = old}
            IN IF hits = {} THEN -1 ELSE Max(hits) - 1
        keep(deps) == SelectSeq(deps, LAMBDA d : id_map(d) # -1)
    IN [k \in 1..Len(compressed) |->
           [compressed[k] EXCEPT
               !.id = k - 1,
               !.depends_on = [x \in 1..Len(keep(compressed[k].depends_on)) |->
                                  id_map(keep(compressed[k].depends_on)[x])]]]

\* enforce_safety_budget(graph): nothing for 20 tasks or fewer.
enforce_safety_budget(tasks) ==
    IF Len(tasks) <= MAX_TASKS
    THEN [tasks |-> tasks, compressed |-> FALSE]
    ELSE [tasks |-> Reassign(Compress(tasks, 1)), compressed |-> TRUE]

\* A graph is handed to enforce_safety_budget.
BudgetCall ==
    /\ budget.pc = "idle"
    /\ \E g \in BudgetGraphs :
          budget' = [BudgetIdle EXCEPT !.pc = "called", !.given = g, !.tasks = g]
    /\ UNCHANGED nonBudgetVars

\* enforce_safety_budget returns.
BudgetEnforce ==
    /\ budget.pc = "called"
    /\ LET r == enforce_safety_budget(budget.given)
       IN budget' = [budget EXCEPT !.pc = "done", !.tasks = r.tasks,
                                   !.compressed = r.compressed]
    /\ UNCHANGED nonBudgetVars

InitBudget ==
    /\ GLOBAL_DRY_RUN = FALSE
    /\ GLOBAL_GUARD = FALSE
    /\ GLOBAL_TIMELINE = <<>>
    /\ TASK_QUEUE = <<>>
    /\ envDryRun = FALSE
    /\ runner = [max_retries |-> 0]
    /\ heal = HealIdle
    /\ fixer = FixerIdle
    /\ UNSAFE_MODE = FALSE
    /\ CONFIG = [ask_before_destructive |-> TRUE]
    /\ exec = ExecIdle
    /\ rcall = RcallIdle
    /\ disk = DiskIdle
    /\ aw = AwIdle
    /\ tree = TreeIdle
    /\ manifest = {}
    /\ orch = OrchIdle
    /\ clock = 0
    /\ sched = SchedIdle
    /\ TIMELINE = <<>>
    /\ rec = RecIdle
    /\ goal = GoalIdle
    /\ memory = MemoryIdle
    /\ session = SessionIdle
    /\ stream = StreamIdle
    /\ summary = SummaryIdle
    /\ planned = PlannedIdle
    /\ executor = ExecutorIdle
    /\ crun = CrunIdle
    /\ autorun = AutorunIdle
    /\ budget = BudgetIdle
    /\ cw = CwIdle

NextBudget ==
    \/ BudgetCall
    \/ BudgetEnforce

SpecBudget == InitBudget /\ [][NextBudget]_vars

\* The tasks of a graph as a function from the ids to the sets of the ids
\* in depends_on.
DepsById(tasks) ==
    [id \in {tasks[k].id : k \in 1..Len(tasks)} |->
        UNION {{tasks[k].depends_on[x] : x \in 1..Len(tasks[k].depends_on)} :
                  k \in {m \in 1..Len(tasks) : tasks[m].id = id}}]

\* C37: for a graph of more than 20 tasks, after enforce_safety_budget the
\* ids are 0..n-1 in order, every depends_on entry names an existing task
\* other than the task itself, and the dependency relation is acyclic.
C37_BudgetKeepsDag ==
    (budget.pc = "done" /\ Len(budget.given) > 20) =>
        LET tasks == budget.tasks
            g == DepsById(tasks)
        IN /\ \A k \in 1..Len(tasks) : tasks[k].id = k - 1
           /\ \A k \in 1..Len(tasks) :
                 \A x \in 1..Len(tasks[k].depends_on) :
                    /\ tasks[k].depends_on[x] \in 0..(Len(tasks) - 1)
                    /\ tasks[k].depends_on[x] # tasks[k].id
           /\ Acyclic(g)

-----------------------------------------------------------------------------
(* fsutil.rs: atomic_write, two calls at once                              *)

NameATxt == <<"a", ".", "t", "x", "t">>
NameBRs == <<"b", ".", "r", "s">>

\* The targets of the concurrent calls, all in one directory that exists,
\* and the two callers.
CwTargets == {NameARs, NameATxt, NameBRs}
CwNodes == CwTargets \cup {with_extension(n, ExtTmpWrite) : n \in CwTargets}
CwCallers == {1, 2}

\* The content caller c passes.
CwContent(c) == <<c>>

\* create_dir_all(parent)? finds the directory; then
\* fs::write(&tmp, content)?: tmp is created or truncated and written.
CwWriteTmp(c) ==
    /\ cw.call[c].pc = "write"
    /\ LET tmp == with_extension(cw.call[c].path, ExtTmpWrite) IN
       \E ok \in BOOLEAN :
          cw' = IF ok
                THEN [cw EXCEPT !.files[tmp] = FileEntry(CwContent(c)),
                                !.call[c].pc = "rename"]
                ELSE [cw EXCEPT !.call[c].pc = "done",
                                !.call[c].result = "WriteError"]
    /\ UNCHANGED nonCwVars

\* fs::rename(&tmp, path)?: fails when tmp is not there (any more).
CwRename(c) ==
    /\ cw.call[c].pc = "rename"
    /\ LET path == cw.call[c].path
           tmp == with_extension(path, ExtTmpWrite)
       IN \E ok \in BOOLEAN :
             cw' = IF ok /\ cw.files[tmp] # NoEntry
                   THEN [cw EXCEPT !.files[path] = cw.files[tmp],
                                   !.files[tmp] = NoEntry,
                                   !.call[c].pc = "done",
                                   !.call[c].result = "Ok"]
                   ELSE [cw EXCEPT !.call[c].pc = "done",
                                   !.call[c].result = "RenameError"]
    /\ UNCHANGED nonCwVars

InitCw ==
    /\ GLOBAL_DRY_RUN = FALSE
    /\ GLOBAL_GUARD = FALSE
    /\ GLOBAL_TIMELINE = <<>>
    /\ TASK_QUEUE = <<>>
    /\ envDryRun = FALSE
    /\ runner = [max_retries |-> 0]
    /\ heal = HealIdle
    /\ fixer = FixerIdle
    /\ UNSAFE_MODE = FALSE
    /\ CONFIG = [ask_before_destructive |-> TRUE]
    /\ exec = ExecIdle
    /\ rcall = RcallIdle
    /\ disk = DiskIdle
    /\ aw = AwIdle
    /\ tree = TreeIdle
    /\ manifest = {}
    /\ orch = OrchIdle
    /\ clock = 0
    /\ sched = SchedIdle
    /\ TIMELINE = <<>>
    /\ rec = RecIdle
    /\ goal = GoalIdle
    /\ memory = MemoryIdle
    /\ session = SessionIdle
    /\ stream = StreamIdle
    /\ summary = SummaryIdle
    /\ planned = PlannedIdle
    /\ executor = ExecutorIdle
    /\ crun = CrunIdle
    /\ autorun = AutorunIdle
    /\ budget = BudgetIdle
    /\ \E p \in {q \in CwTargets \X CwTargets : q[1] # q[2]},
          files \in [CwTargets -> {NoEntry, FileEntry(OldData)}] :
          cw = [files |-> [n \in CwNodes |->
                              IF n \in CwTargets THEN files[n] ELSE NoEntry],
                call |-> [c \in CwCallers |->
                             [pc |-> "write", path |-> p[c],
                              result |-> "none"]]]

NextCw ==
    \/ \E c \in CwCallers : CwWriteTmp(c)
    \/ \E c \in CwCallers : CwRename(c)

SpecCw == InitCw /\ [][NextCw]_vars

\* C39: of two concurrent calls of atomic_write for different targets, each
\* call that has returned Ok has left its own target holding exactly the
\* content passed to it.
C39_ConcurrentWrites ==
    \A c \in DOMAIN cw.call :
        (cw.call[c].pc = "done" /\ cw.call[c].result = "Ok") =>
            cw.files[cw.call[c].path] = FileEntry(CwContent(c))

====
